---- MODULE Spec2Model ----
(***************************************************************************)
(* Shared modules of a multi-tenant backend: the RoutingAsyncSession of    *)
(* db.py (reads to the replica, writes to primary, fallback and retry),    *)
(* get_current_user of dependency.py and check_api_permissions of          *)
(* utils/api_permission.py.                                                *)
(***************************************************************************)
EXTENDS Integers, Sequences, FiniteSets, TLC

VARIABLES
    \* ---- RoutingAsyncSession (db.py) ----
    use_primary_next,   \* self._use_primary_next
    rpc,                \* "idle" | "running" (inside execute) | "exiting" | "closed"
    statement,          \* the statement of the current / last execute call
    attempt,            \* tenacity attempt number of the current execute call
    result,             \* how the last session operation ended
    last_op,            \* the last session operation
    served,             \* the connection that produced the last returned result
    fetched,            \* the rows the last returned execute produced
    primary_conn,       \* state of self.primary_session
    replica_conn,       \* state of self.replica_session
    sent_primary,       \* submissions to primary during the current call
    sent_replica,       \* submissions to the replica during the current call
    replica_operr,      \* the replica raised OperationalError in the last attempt
    primary_failures,   \* failed submissions to primary during the current call
    wrote_since_commit, \* a write statement returned since the last commit
    close_called,       \* the connections close() was called on
    rollback_called,    \* the connections the last rollback() was called on
    pending,            \* the open transaction on primary holds a write
    durable,            \* a write of this session is committed in the primary store
    exit_kind,          \* how the request that holds the session ended
    peer,               \* the RoutingAsyncSession of a concurrent request
    \* ---- the two stores ----
    primary_sessions,   \* access tokens with a Session row, deleted_at unset
    replica_sessions,
    primary_tenant_users, \* the TenantUser rows
    replica_tenant_users,
    \* ---- get_current_user (dependency.py) ----
    gpc,                \* "idle" | "session" | "admin" | "cache" | "done"
    token,              \* the bearer token presented
    payload,            \* the decoded, normalized claims
    cache_key,          \* the key read from the cache
    cached_data,        \* what cache_manager.get returned
    cache_error,        \* Redis raised inside cache_manager.get
    cache_kept,         \* the cache holds after the read what it held before
    queried,            \* the store queries issued by this call, in order
    outcome,            \* what get_current_user returned or raised
    primary_had_row,    \* primary held the active row at some moment of the call
    \* ---- check_api_permissions (utils/api_permission.py) ----
    cpc,                \* "idle" | "membership" | "done"
    api_name,           \* the api_name argument
    current_user,       \* current_user['users'][0]
    gate_outcome,       \* what check_api_permissions returned or raised
    \* ---- CacheManager (cacheManager.py) ----
    redis_db,           \* what the Redis server holds under each key
    redis_client,       \* self._redis_client is set
    cm,                 \* the last data operation and what it returned
    wrap,               \* the call of a function wrapped by cache(...)
    \* ---- DecryptionMiddleware (middleware/decryption.py) ----
    mw,                 \* the request in the middleware and what became of it
    \* ---- SQSQueueManager.poll_queue (sqs_manager.py) ----
    sqs_queue,          \* what the queue holds of each message
    poll                \* the polling loop: its position, batch and history

routing_vars == <<use_primary_next, rpc, statement, attempt, result, last_op, served,
                  fetched, primary_conn, replica_conn, sent_primary, sent_replica,
                  replica_operr, primary_failures, wrote_since_commit, close_called, peer,
                  rollback_called, pending, durable, exit_kind>>

store_vars == <<primary_sessions, replica_sessions, primary_tenant_users,
                replica_tenant_users>>

auth_vars == <<gpc, token, payload, cache_key, cached_data, cache_error, cache_kept, queried, outcome,
               primary_had_row>>

gate_vars == <<cpc, api_name, current_user, gate_outcome>>

cache_vars == <<redis_db, redis_client, cm, wrap>>

io_vars == <<mw, sqs_queue, poll>>

vars == <<routing_vars, store_vars, auth_vars, gate_vars, cache_vars, io_vars>>

----------------------------------------------------------------------------
\* Tokens and claims.

\* The current time, datetime.now(timezone.utc).timestamp().
Now == 1

\* Rows a session table holds at most.
MaxSessions == 1

\* payload.get(field) of a claim the token does not carry (None).
Absent == "<absent>"

\* payload.get(field) of a claim of the wrong type (a number where a string
\* is required).
Mistyped == "<mistyped>"

\* The text of two UUIDs, each in its canonical and in an upper-case spelling,
\* and a text that is no UUID.
U1 == "aaaaaaaa-0000-0000-0000-000000000001"
U1Upper == "AAAAAAAA-0000-0000-0000-000000000001"
T1 == "bbbbbbbb-0000-0000-0000-000000000001"
T1Upper == "BBBBBBBB-0000-0000-0000-000000000001"
T2 == "cccccccc-0000-0000-0000-000000000002"
U2 == "dddddddd-0000-0000-0000-000000000002"
BadUuid == "not-a-uuid"
NoneStr == "None"

\* UUID(text) succeeds.
IsUuid(x) == x \in {U1, U1Upper, T1, T1Upper}

\* str(UUID(text))
UuidStr(x) ==
    CASE x \in {U1, U1Upper} -> U1
      [] x \in {T1, T1Upper} -> T1
      [] OTHER -> x

NoExp == [present |-> FALSE, value |-> 0]

Exp(n) == [present |-> TRUE, value |-> n]

\* A string jwt.decode rejects (bad signature or format).
Garbage ==
    [sig |-> FALSE, sub |-> Absent, user_id |-> Absent, tenant_id |-> Absent,
     exp |-> NoExp]

SignedTokens ==
    [sig : {TRUE},
     sub : {"a@x.io", Absent},
     user_id : {U1, U1Upper, NoneStr, BadUuid, Absent, Mistyped},
     tenant_id : {T1, T1Upper, NoneStr, BadUuid, Absent, Mistyped},
     exp : {Exp(Now - 1), Exp(Now + 1), NoExp}]

Tokens == {Garbage} \cup SignedTokens

\* The tokens the login flow issues, and so the tokens a Session row can hold.
IssuedTokens ==
    {t \in SignedTokens :
        /\ t.sub # Absent
        /\ t.user_id = U1
        /\ t.tenant_id \in {T1, NoneStr}
        /\ t.exp.present}

NoPayload ==
    [sub |-> Absent, user_id |-> Absent, tenant_id |-> Absent, exp |-> NoExp]

\* The payload jwt.decode returns.
Claims(t) == [sub |-> t.sub, user_id |-> t.user_id, tenant_id |-> t.tenant_id, exp |-> t.exp]

----------------------------------------------------------------------------
\* What get_current_user returns or raises.

NoOutcome == [status |-> 0, detail |-> "", users |-> <<>>, message |-> Absent]

\* raise HTTPException(status_code, detail)
HttpError(status, detail) ==
    [status |-> status, detail |-> detail, users |-> <<>>, message |-> Absent]

\* UserResponse(users=[user_data_model], message=...).dict()
UserResponse(ctx, message) ==
    [status |-> 200, detail |-> "", users |-> <<ctx>>, message |-> message]

RECURSIVE Join(_, _)
\* sep.join(parts)
Join(parts, sep) ==
    IF parts = <<>> THEN ""
    ELSE IF Len(parts) = 1 THEN Head(parts)
    ELSE Head(parts) \o sep \o Join(Tail(parts), sep)

\* A check of the required fields that reports the first bad field only.
MissingFieldsFirstOnly(p) ==
    IF p.sub \in {Absent, Mistyped} THEN <<"sub">>
    ELSE IF p.user_id \in {Absent, Mistyped} THEN <<"user_id">>
    ELSE IF p.tenant_id \in {Absent, Mistyped} THEN <<"tenant_id">>
    ELSE IF ~p.exp.present THEN <<"exp">>
    ELSE <<>>

\* [field for field, type_ in required_fields.items()
\*  if not isinstance(payload.get(field), type_)]
MissingFields(p) ==
    (IF p.sub \in {Absent, Mistyped} THEN <<"sub">> ELSE <<>>)
    \o (IF p.user_id \in {Absent, Mistyped} THEN <<"user_id">> ELSE <<>>)
    \o (IF p.tenant_id \in {Absent, Mistyped} THEN <<"tenant_id">> ELSE <<>>)
    \o (IF ~p.exp.present THEN <<"exp">> ELSE <<>>)

\* The for loop over ("user_id", "tenant_id"): the first field that is not
\* 'None' and does not parse as a UUID, or Absent.
BadUuidField(p) ==
    IF p.user_id # NoneStr /\ ~IsUuid(p.user_id) THEN "user_id"
    ELSE IF p.tenant_id # NoneStr /\ ~IsUuid(p.tenant_id) THEN "tenant_id"
    ELSE Absent

NormalizeField(x) == IF x # NoneStr THEN UuidStr(x) ELSE x

\* Lines 38-68 of get_current_user without the expiry checks: [ok, payload] or
\* [ok = FALSE, error].
DecodeNoExpiry(t, now) ==
    IF ~t.sig THEN [ok |-> FALSE, error |-> HttpError(401, "Invalid token")]
    ELSE IF MissingFields(Claims(t)) # <<>>
    THEN [ok |-> FALSE,
          error |-> HttpError(401, "Invalid token: missing or invalid "
                                     \o Join(MissingFields(Claims(t)), ", "))]
    ELSE IF BadUuidField(Claims(t)) # Absent
    THEN [ok |-> FALSE,
          error |-> HttpError(401, "Invalid " \o BadUuidField(Claims(t)) \o " format")]
    ELSE [ok |-> TRUE,
          payload |-> [Claims(t) EXCEPT !.user_id = NormalizeField(t.user_id),
                                        !.tenant_id = NormalizeField(t.tenant_id)]]

\* Lines 38-68 of get_current_user: jwt.decode (signature, then the exp claim
\* when present), the required fields, the expiry re-check, the UUID fields.
DecodeToken(t, now) ==
    IF ~t.sig THEN [ok |-> FALSE, error |-> HttpError(401, "Invalid token")]
    ELSE IF t.exp.present /\ t.exp.value < now
    THEN [ok |-> FALSE, error |-> HttpError(401, "Token has expired")]
    ELSE IF MissingFields(Claims(t)) # <<>>
    THEN [ok |-> FALSE,
          error |-> HttpError(401, "Invalid token: missing or invalid "
                                     \o Join(MissingFields(Claims(t)), ", "))]
    ELSE IF Claims(t).exp.value < now
    THEN [ok |-> FALSE, error |-> HttpError(401, "Token has expired")]
    ELSE IF BadUuidField(Claims(t)) # Absent
    THEN [ok |-> FALSE,
          error |-> HttpError(401, "Invalid " \o BadUuidField(Claims(t)) \o " format")]
    ELSE [ok |-> TRUE,
          payload |-> [Claims(t) EXCEPT !.user_id = NormalizeField(t.user_id),
                                        !.tenant_id = NormalizeField(t.tenant_id)]]

----------------------------------------------------------------------------
\* What cache_manager.get can return for the privilege key.

\* One value of the cached privileges map: a list of privileges or one string.
PrivList(items) == [kind |-> "list", items |-> items, value |-> ""]

PrivStr(value) == [kind |-> "str", items |-> <<>>, value |-> value]

Entry(resource, privs) == [resource |-> resource, privs |-> privs]

\* The cached privileges maps, each in its stored (insertion) order.
PrivMaps ==
    { <<>>,
      <<Entry("user_management", PrivList(<<"create", "view">>)),
        Entry("privilege", PrivStr("assign"))>>,
      <<Entry("privilege", PrivStr("assign")),
        Entry("user_management", PrivList(<<"view", "create">>))>>,
      <<Entry("user_management", PrivList(<<>>))>>,
      <<Entry("freight_rate", PrivList(<<"view">>)),
        Entry("user_management", PrivList(<<>>)),
        Entry("tariff_rate", PrivList(<<"view", "import", "edit">>))>> }

UserDetails(email, user_id, tenant_id, status) ==
    [email |-> email, user_id |-> user_id, tenant_id |-> tenant_id, name |-> "Ann",
     status |-> status]

CachedUsers ==
    { UserDetails("c@x.io", U1, T1, "active"),
      UserDetails("c@x.io", U1, T2, "active"),
      UserDetails(Absent, Absent, Absent, "active"),
      UserDetails("c@x.io", U1, T1, "suspended"),
      UserDetails("c@x.io", U1, T1, Absent) }

NoUser == UserDetails(Absent, Absent, Absent, Absent)

\* Nothing stored under the key (or a Redis error inside get): None.
CacheNone ==
    [type |-> "none", parses |-> FALSE, parsed_type |-> "none", has_user |-> FALSE,
     user |-> NoUser, has_privileges |-> FALSE, privileges |-> <<>>]

\* A dict with the key "user" and, when has_privileges, the key "privileges".
Bundle(user, has_privileges, privileges) ==
    [type |-> "dict", parses |-> FALSE, parsed_type |-> "none", has_user |-> TRUE,
     user |-> user, has_privileges |-> has_privileges, privileges |-> privileges]

\* A non-empty dict without the key "user".
NoUserDict == [CacheNone EXCEPT !.type = "dict", !.has_privileges = TRUE]

\* The empty dict.
EmptyDict == [CacheNone EXCEPT !.type = "dict"]

\* A non-empty list.
ListValue == [CacheNone EXCEPT !.type = "list"]

\* A string that is the JSON text of the value d.
JsonStr(d) == [d EXCEPT !.type = "str", !.parses = TRUE, !.parsed_type = d.type]

\* A string that is not JSON.
CorruptStr == [CacheNone EXCEPT !.type = "str"]

Bundles ==
    {Bundle(u, TRUE, m) : u \in {UserDetails("c@x.io", U1, T1, "active")}, m \in PrivMaps}
    \cup {Bundle(u, FALSE, <<>>) : u \in CachedUsers}

CacheValues ==
    {CacheNone, EmptyDict, NoUserDict, ListValue, CorruptStr} \cup Bundles
    \cup {JsonStr(Bundle(UserDetails("c@x.io", U1, T1, "active"), TRUE, m)) :
             m \in {<<Entry("privilege", PrivStr("assign"))>>}}
    \cup {JsonStr(ListValue)}

\* not cached_data
Falsy(v) == v.type = "none" \/ v = EmptyDict

\* json.loads(cached_data) of a string that parses.
JsonLoads(v) == [v EXCEPT !.type = v.parsed_type, !.parses = FALSE, !.parsed_type = "none"]

\* privs if isinstance(privs, list) else [privs]
AsList(privs) == IF privs.kind = "list" THEN privs.items ELSE <<privs.value>>

RECURSIVE Prefixed(_, _)
\* [f"{resource}:{privilege}" for privilege in items]
Prefixed(resource, items) ==
    IF items = <<>> THEN <<>>
    ELSE <<resource \o ":" \o Head(items)>> \o Prefixed(resource, Tail(items))

RECURSIVE FlattenFirstOnly(_)
FlattenFirstOnly(privileges) ==
    IF privileges = <<>> THEN <<>>
    ELSE LET e == Head(privileges)
             own == IF AsList(e.privs) = <<>> THEN <<>>
                    ELSE Prefixed(e.resource, <<Head(AsList(e.privs))>>)
         IN own \o FlattenFirstOnly(Tail(privileges))

RECURSIVE Flatten(_)
\* privilege_list: the comprehension over privileges.items()
Flatten(privileges) ==
    IF privileges = <<>> THEN <<>>
    ELSE Prefixed(Head(privileges).resource, AsList(Head(privileges).privs))
         \o Flatten(Tail(privileges))

\* dict.get(key, default) on a value that may be missing.
Get(value, default) == IF value = Absent THEN default ELSE value

\* A user_data that takes the cached tenant_id for every token.
UserDataCachedTenant(user_details, p, is_super_admin, privilege_list) ==
    [email |-> Get(user_details.email, p.sub),
     user_id |-> Get(user_details.user_id, p.user_id),
     tenant_id |-> Get(user_details.tenant_id, p.tenant_id),
     name |-> user_details.name,
     status |-> Get(user_details.status, "active"),
     user_details |-> user_details,
     privileges |-> privilege_list]

\* user_data of lines 120-128.
UserData(user_details, p, is_super_admin, privilege_list) ==
    [email |-> Get(user_details.email, p.sub),
     user_id |-> Get(user_details.user_id, p.user_id),
     tenant_id |-> IF is_super_admin THEN NoneStr
                   ELSE Get(user_details.tenant_id, p.tenant_id),
     name |-> user_details.name,
     status |-> Get(user_details.status, "active"),
     user_details |-> user_details,
     privileges |-> privilege_list]

\* An envelope that never carries a message.
MessageNever(privilege_list) == Absent

\* "No privileges assigned to user" if not privilege_list else None
Message(privilege_list) ==
    IF privilege_list = <<>> THEN "No privileges assigned to user" ELSE Absent

\* A status check that takes a missing status for "active".
FromBundleDefaultStatus(d, p, is_super_admin) ==
    IF Get(d.user.status, "active") # "active"
    THEN HttpError(403, "User account is not active")
    ELSE LET privilege_list ==
                 Flatten(IF d.has_privileges THEN d.privileges ELSE <<>>)
         IN UserResponse(UserData(d.user, p, is_super_admin, privilege_list),
                         Message(privilege_list))

\* Lines 110-140 of get_current_user: from the cached dict to the result.
FromBundle(d, p, is_super_admin) ==
    IF d.user.status # "active"
    THEN HttpError(403, "User account is not active")
    ELSE LET privilege_list ==
                 Flatten(IF d.has_privileges THEN d.privileges ELSE <<>>)
         IN UserResponse(UserData(d.user, p, is_super_admin, privilege_list),
                         Message(privilege_list))

FromCacheDefaults(v, p, is_super_admin) ==
    IF Falsy(v)
    THEN UserResponse(UserData(NoUser, p, is_super_admin, <<>>),
                      "No privileges assigned to user")
    ELSE IF v.type = "str" /\ ~v.parses
    THEN HttpError(500, "Invalid cached data format")
    ELSE LET d == IF v.type = "str" THEN JsonLoads(v) ELSE v IN
         IF d.type # "dict" \/ ~d.has_user
         THEN HttpError(500, "Invalid cached data structure")
         ELSE FromBundle(d, p, is_super_admin)

FromCacheStatusFirst(v, p, is_super_admin) ==
    IF Falsy(v) THEN HttpError(401, "User not found in cache")
    ELSE IF v.user.status # "active"
    THEN HttpError(403, "User account is not active")
    ELSE IF v.type = "str" /\ ~v.parses
    THEN HttpError(500, "Invalid cached data format")
    ELSE LET d == IF v.type = "str" THEN JsonLoads(v) ELSE v IN
         IF d.type # "dict" \/ ~d.has_user
         THEN HttpError(500, "Invalid cached data structure")
         ELSE FromBundle(d, p, is_super_admin)

\* Lines 90-140 of get_current_user: from the cached value to the result.
FromCache(v, p, is_super_admin) ==
    IF Falsy(v) THEN HttpError(401, "User not found in cache")
    ELSE IF v.type = "str" /\ ~v.parses
    THEN HttpError(500, "Invalid cached data format")
    ELSE LET d == IF v.type = "str" THEN JsonLoads(v) ELSE v IN
         IF d.type # "dict" \/ ~d.has_user
         THEN HttpError(500, "Invalid cached data structure")
         ELSE FromBundle(d, p, is_super_admin)

----------------------------------------------------------------------------
\* The rows of the two stores.

\* TenantUser.tenant_id of a row without tenant (NULL).
NullTenant == "NULL"

TenantUserRow(user_id, tenant_id, is_admin, status) ==
    [user_id |-> user_id, tenant_id |-> tenant_id, is_admin |-> is_admin,
     status |-> status]

\* The tenant_users tables get_current_user runs against.
AdminTables ==
    { {},
      {TenantUserRow(U1, NullTenant, TRUE, "active")},
      {TenantUserRow(U1, T1, TRUE, "suspended")},
      {TenantUserRow(U1, T1, FALSE, "active")} }

\* TenantUserStatus.all()
TenantUserStatuses ==
    {"invited", "active", "accepted", "rejected", "suspended", "deleted"}

\* The tenant_users tables check_api_permissions runs against: no row for
\* the user in the tenant, or one row in any status.
MemberTables ==
    {{}} \cup {{TenantUserRow(U1, T1, FALSE, st)} : st \in TenantUserStatuses}

\* The user-context handed to check_api_permissions.
Context(user_id, tenant_id, privileges) ==
    [user_id |-> user_id, tenant_id |-> tenant_id, privileges |-> privileges]

NoContext == Context(Absent, Absent, <<>>)

Sessions(conn) == IF conn = "primary" THEN primary_sessions ELSE replica_sessions

TenantUsers(conn) ==
    IF conn = "primary" THEN primary_tenant_users ELSE replica_tenant_users

\* An admin query that also asks for an active row.
SuperAdminQueryActiveOnly(rows, user_id) ==
    {r \in rows : r.user_id = user_id /\ r.is_admin /\ r.status = "active"}

\* select(TenantUser).where(user_id == UUID(...), is_admin == True)
SuperAdminQuery(rows, user_id) ==
    {r \in rows : r.user_id = user_id /\ r.is_admin}

\* The rows a statement yields on the connection that served it.
QueryResult(s, conn) ==
    CASE s.query = "session" ->
            \* select(Session).where(access_token == token, deleted_at.is_(None))
            {t \in Sessions(conn) : t = token}
      [] s.query = "super_admin" ->
            SuperAdminQuery(TenantUsers(conn), payload.user_id)
      [] s.query = "membership" ->
            \* select(TenantUser).where(and_(user_id == ..., tenant_id == ...))
            {r \in TenantUsers(conn) :
                r.user_id = current_user.user_id /\ r.tenant_id = current_user.tenant_id}
      [] OTHER -> {}

----------------------------------------------------------------------------
\* RoutingAsyncSession (db.py).

\* stop_after_attempt(3)
MaxAttempts == 3

\* A stop condition that allows one attempt more.
StopAfterOneMore(n) == n >= MaxAttempts + 1

\* stop_after_attempt(3): no further attempt after attempt number n.
StopAfterAttempt(n) == n >= MaxAttempts

\* The session of a concurrent request: its own _use_primary_next, the kind
\* of its last statement, the session that statement was submitted to first,
\* and the two flags as they were when it was executed.
PeerSession(upn, kind, first, own_before, other_before) ==
    [use_primary_next |-> upn, kind |-> kind, first |-> first,
     own_before |-> own_before, other_before |-> other_before]

\* RoutingAsyncSession.__init__ of the concurrent request.
NoPeer == PeerSession(FALSE, "none", "none", FALSE, FALSE)

\* A flag kept on the class: every session sees the writes of every other.
SharedFlag(own, other) == own \/ other

\* self._use_primary_next: the flag of the session's own instance.
OwnFlag(own, other) == own

\* How one call on an underlying AsyncSession can end.
DbOutcomes == {"ok", "OperationalError", "Error"}

StatementKinds == {"Select", "Insert", "Update", "Delete"}

Stmt(kind, query) == [kind |-> kind, query |-> query]

NoStatement == Stmt("none", "none")

\* A test that takes every statement for a Select.
IsSelectAny(s) == s.kind \in StatementKinds

\* isinstance(statement, Select)
IsSelect(s) == s.kind = "Select"

\* isinstance(statement, (Insert, Update, Delete))
IsWrite(s) == s.kind \in {"Insert", "Update", "Delete"}

----------------------------------------------------------------------------
\* One run of the body of RoutingAsyncSession.execute, given how the replica
\* (rOut), primary (pOut) and the primary call of the except branch (fOut)
\* end. ret = FALSE: the body raised.
FallbackReraise(upn, fOut, sentR, replicaFailed) ==
    [ret |-> FALSE, served |-> "none", upn |-> upn,
     sentP |-> IF replicaFailed THEN 0 ELSE 1, sentR |-> sentR,
     replicaOpErr |-> replicaFailed,
     primaryFailures |-> IF replicaFailed THEN 0 ELSE 1]

\* An except branch that marks the session once primary has answered.
FallbackSetsFlag(upn, fOut, sentR, replicaFailed) ==
    [ret |-> fOut = "ok", served |-> "primary", upn |-> (upn \/ fOut = "ok"),
     sentP |-> IF replicaFailed THEN 1 ELSE 2, sentR |-> sentR,
     replicaOpErr |-> replicaFailed,
     primaryFailures |-> (IF replicaFailed THEN 0 ELSE 1) + (IF fOut = "ok" THEN 0 ELSE 1)]

Fallback(upn, fOut, sentR, replicaFailed) ==
    [ret |-> fOut = "ok", served |-> "primary", upn |-> upn,
     sentP |-> IF replicaFailed THEN 1 ELSE 2, sentR |-> sentR,
     replicaOpErr |-> replicaFailed,
     primaryFailures |-> (IF replicaFailed THEN 0 ELSE 1) + (IF fOut = "ok" THEN 0 ELSE 1)]

ExecuteBody(s, upn, rOut, pOut, fOut) ==
    IF IsSelect(s) /\ ~upn
    THEN CASE rOut = "ok" ->
                [ret |-> TRUE, served |-> "replica", upn |-> upn, sentP |-> 0,
                 sentR |-> 1, replicaOpErr |-> FALSE, primaryFailures |-> 0]
           [] rOut = "OperationalError" -> Fallback(upn, fOut, 1, TRUE)
           [] OTHER ->
                [ret |-> FALSE, served |-> "replica", upn |-> upn, sentP |-> 0,
                 sentR |-> 1, replicaOpErr |-> FALSE, primaryFailures |-> 0]
    ELSE CASE pOut = "ok" ->
                [ret |-> TRUE, served |-> "primary", upn |-> (upn \/ IsWrite(s)),
                 sentP |-> 1, sentR |-> 0, replicaOpErr |-> FALSE,
                 primaryFailures |-> 0]
           [] pOut = "OperationalError" -> Fallback(upn, fOut, 0, FALSE)
           [] OTHER ->
                [ret |-> FALSE, served |-> "primary", upn |-> upn, sentP |-> 1,
                 sentR |-> 0, replicaOpErr |-> FALSE, primaryFailures |-> 1]

InTx(conn, sent) == IF sent > 0 /\ conn = "open" THEN "in_tx" ELSE conn

\* A caller enters execute.
BeginExecute(s) ==
    /\ rpc = "idle"
    /\ rpc' = "running"
    /\ statement' = s
    /\ attempt' = 1
    /\ last_op' = "execute"
    /\ result' = "none"
    /\ served' = "none"
    /\ fetched' = {}
    /\ sent_primary' = 0
    /\ sent_replica' = 0
    /\ replica_operr' = FALSE
    /\ primary_failures' = 0
    /\ UNCHANGED <<use_primary_next, primary_conn, replica_conn, wrote_since_commit,
                   close_called, peer, rollback_called, pending, durable, exit_kind>>

\* The handler of a request calls session.execute(statement).
Execute(kind) ==
    /\ gpc = "idle"
    /\ cpc = "idle"
    /\ BeginExecute(Stmt(kind, "none"))
    /\ UNCHANGED <<store_vars, auth_vars, gate_vars, cache_vars, io_vars>>

\* An attempt whose body returns: execute returns to its caller.
AttemptReturns(rOut, pOut, fOut) ==
    LET b == ExecuteBody(statement, OwnFlag(use_primary_next, peer.use_primary_next),
                         rOut, pOut, fOut) IN
    /\ rpc = "running"
    /\ b.ret
    /\ rpc' = "idle"
    /\ result' = "ok"
    /\ served' = b.served
    /\ fetched' = QueryResult(statement, b.served)
    /\ use_primary_next' = b.upn
    /\ sent_primary' = sent_primary + b.sentP
    /\ sent_replica' = sent_replica + b.sentR
    /\ replica_operr' = b.replicaOpErr
    /\ primary_failures' = primary_failures + b.primaryFailures
    /\ primary_conn' = InTx(primary_conn, b.sentP)
    /\ replica_conn' = InTx(replica_conn, b.sentR)
    /\ wrote_since_commit' = (wrote_since_commit \/ IsWrite(statement))
    /\ pending' = (pending \/ IsWrite(statement))
    /\ UNCHANGED <<statement, attempt, last_op, close_called, peer, rollback_called, durable,
                   exit_kind>>
    /\ UNCHANGED <<store_vars, auth_vars, gate_vars, cache_vars, io_vars>>

\* An attempt whose body raises before the last attempt: tenacity waits and
\* runs the body again.
AttemptRetries(rOut, pOut, fOut) ==
    LET b == ExecuteBody(statement, OwnFlag(use_primary_next, peer.use_primary_next),
                         rOut, pOut, fOut) IN
    /\ rpc = "running"
    /\ ~b.ret
    /\ ~StopAfterAttempt(attempt)
    /\ attempt' = attempt + 1
    /\ sent_primary' = sent_primary + b.sentP
    /\ sent_replica' = sent_replica + b.sentR
    /\ replica_operr' = b.replicaOpErr
    /\ primary_failures' = primary_failures + b.primaryFailures
    /\ primary_conn' = InTx(primary_conn, b.sentP)
    /\ replica_conn' = InTx(replica_conn, b.sentR)
    /\ UNCHANGED <<use_primary_next, rpc, statement, result, last_op, served, fetched,
                   wrote_since_commit, close_called, peer, rollback_called, pending, durable,
                   exit_kind>>
    /\ UNCHANGED <<store_vars, auth_vars, gate_vars, cache_vars, io_vars>>

\* The last attempt raises: tenacity raises RetryError to the caller.
AttemptGivesUp(rOut, pOut, fOut) ==
    LET b == ExecuteBody(statement, OwnFlag(use_primary_next, peer.use_primary_next),
                         rOut, pOut, fOut) IN
    /\ rpc = "running"
    /\ ~b.ret
    /\ StopAfterAttempt(attempt)
    /\ rpc' = "idle"
    /\ result' = "RetryError"
    /\ sent_primary' = sent_primary + b.sentP
    /\ sent_replica' = sent_replica + b.sentR
    /\ replica_operr' = b.replicaOpErr
    /\ primary_failures' = primary_failures + b.primaryFailures
    /\ primary_conn' = InTx(primary_conn, b.sentP)
    /\ replica_conn' = InTx(replica_conn, b.sentR)
    /\ UNCHANGED <<use_primary_next, statement, attempt, last_op, served, fetched,
                   wrote_since_commit, close_called, peer, rollback_called, pending, durable,
                   exit_kind>>
    /\ UNCHANGED <<store_vars, auth_vars, gate_vars, cache_vars, io_vars>>

\* A commit that is passed on to both sessions.
CommitBoth == {"primary", "replica"}

\* The sessions commit() is passed on to.
CommitTargets == {"primary"}

\* RoutingAsyncSession.commit
Commit(pOut) ==
    /\ rpc = "idle"
    /\ gpc = "idle"
    /\ cpc = "idle"
    /\ last_op' = "commit"
    /\ result' = pOut
    /\ IF pOut = "ok"
       THEN /\ primary_conn' = "open"
            /\ replica_conn' = IF "replica" \in CommitTargets THEN "open" ELSE replica_conn
            /\ use_primary_next' = FALSE
            /\ wrote_since_commit' = FALSE
            /\ pending' = FALSE
            /\ durable' = (durable \/ pending)
       ELSE UNCHANGED <<primary_conn, replica_conn, use_primary_next, wrote_since_commit,
                        pending, durable>>
    /\ UNCHANGED <<rpc, statement, attempt, served, fetched, sent_primary,
                   sent_replica, replica_operr, primary_failures, close_called, peer,
                   rollback_called, exit_kind>>
    /\ UNCHANGED <<store_vars, auth_vars, gate_vars, cache_vars, io_vars>>

\* The sessions rollback() is passed on to, given how the rollback of
\* primary ends: the two awaits run one after the other.
RollbackTargets(pOut) == IF pOut = "ok" THEN {"primary", "replica"} ELSE {"primary"}

\* A close of the primary session that commits its open transaction.
ClosePrimaryCommits(p, d) == [pending |-> FALSE, durable |-> (d \/ p)]

\* AsyncSession.close() on primary: the open transaction is rolled back.
ClosePrimary(p, d) == [pending |-> FALSE, durable |-> d]

\* A rollback that resets the flag as commit does.
FlagResetByRollback(upn) == FALSE

\* _use_primary_next after rollback(): its body assigns nothing.
FlagAfterRollback(upn) == upn

\* RoutingAsyncSession.rollback
Rollback(pOut, rOut) ==
    /\ rpc = "idle"
    /\ gpc = "idle"
    /\ cpc = "idle"
    /\ last_op' = "rollback"
    /\ result' = IF pOut = "ok" THEN rOut ELSE pOut
    /\ primary_conn' = IF pOut = "ok" THEN "open" ELSE primary_conn
    /\ replica_conn' = IF "replica" \in RollbackTargets(pOut) /\ rOut = "ok"
                       THEN "open" ELSE replica_conn
    /\ rollback_called' = RollbackTargets(pOut)
    /\ pending' = IF pOut = "ok" THEN FALSE ELSE pending
    /\ use_primary_next' = FlagAfterRollback(use_primary_next)
    /\ UNCHANGED <<rpc, statement, attempt, served, fetched,
                   sent_primary, sent_replica, replica_operr, primary_failures,
                   wrote_since_commit, close_called, peer, durable, exit_kind>>
    /\ UNCHANGED <<store_vars, auth_vars, gate_vars, cache_vars, io_vars>>

\* RoutingAsyncSession.close
Close(pOut, rOut) ==
    /\ rpc \in {"idle", "exiting"}
    /\ gpc \in {"idle", "done"}
    /\ cpc \in {"idle", "done"}
    /\ rpc' = "closed"
    /\ last_op' = "close"
    /\ result' = IF pOut = "ok" THEN rOut ELSE pOut
    /\ primary_conn' = IF pOut = "ok" THEN "closed" ELSE primary_conn
    /\ replica_conn' = IF pOut = "ok" /\ rOut = "ok" THEN "closed" ELSE replica_conn
    /\ close_called' = IF pOut = "ok" THEN {"primary", "replica"} ELSE {"primary"}
    /\ pending' = IF pOut = "ok" THEN ClosePrimary(pending, durable).pending ELSE pending
    /\ durable' = IF pOut = "ok" THEN ClosePrimary(pending, durable).durable ELSE durable
    /\ UNCHANGED <<use_primary_next, statement, attempt, served, fetched, sent_primary,
                   sent_replica, replica_operr, primary_failures, wrote_since_commit,
                   rollback_called, exit_kind, peer>>
    /\ UNCHANGED <<store_vars, auth_vars, gate_vars, cache_vars, io_vars>>

\* The session the body of execute submits the statement to first.
FirstTarget(s, upn) == IF IsSelect(s) /\ ~upn THEN "replica" ELSE "primary"

\* The request is cancelled while execute awaits a session: CancelledError is
\* neither caught by "except OperationalError" nor retried, and leaves
\* through the finally of get_routing_session. reached: the statement in
\* flight had reached its session and taken effect there.
Cancel(reached) ==
    LET target == FirstTarget(statement, use_primary_next) IN
    /\ rpc = "running"
    /\ gpc = "idle"
    /\ cpc = "idle"
    /\ rpc' = "exiting"
    /\ exit_kind' = "cancelled"
    /\ result' = "CancelledError"
    /\ sent_primary' = sent_primary + (IF reached /\ target = "primary" THEN 1 ELSE 0)
    /\ sent_replica' = sent_replica + (IF reached /\ target = "replica" THEN 1 ELSE 0)
    /\ primary_conn' = IF reached /\ target = "primary" THEN InTx(primary_conn, 1)
                       ELSE primary_conn
    /\ replica_conn' = IF reached /\ target = "replica" THEN InTx(replica_conn, 1)
                       ELSE replica_conn
    /\ pending' = (pending \/ (reached /\ target = "primary" /\ IsWrite(statement)))
    /\ UNCHANGED <<use_primary_next, statement, attempt, last_op, served, fetched,
                   replica_operr, primary_failures, wrote_since_commit, close_called, peer,
                   rollback_called, durable>>
    /\ UNCHANGED <<store_vars, auth_vars, gate_vars, cache_vars, io_vars>>

\* The handler that holds the session returns or raises: the generator of
\* get_routing_session is resumed and enters its finally.
RequestEnds(how) ==
    /\ rpc = "idle"
    /\ gpc = "idle"
    /\ cpc = "idle"
    /\ rpc' = "exiting"
    /\ exit_kind' = how
    /\ UNCHANGED <<use_primary_next, statement, attempt, result, last_op, served, fetched,
                   primary_conn, replica_conn, sent_primary, sent_replica, replica_operr,
                   primary_failures, wrote_since_commit, close_called, peer, rollback_called,
                   pending, durable>>
    /\ UNCHANGED <<store_vars, auth_vars, gate_vars, cache_vars, io_vars>>

\* The concurrent request calls execute on its own session; the call runs
\* to its end (one attempt is shown, the retries repeat it).
PeerExecute(kind, rOut, pOut, fOut) ==
    LET flag == OwnFlag(peer.use_primary_next, use_primary_next)
        b == ExecuteBody(Stmt(kind, "none"), flag, rOut, pOut, fOut)
    IN /\ gpc = "idle"
       /\ cpc = "idle"
       /\ peer' = PeerSession(b.upn, kind, FirstTarget(Stmt(kind, "none"), flag),
                              peer.use_primary_next, use_primary_next)
       /\ UNCHANGED <<use_primary_next, rpc, statement, attempt, result, last_op, served,
                      fetched, primary_conn, replica_conn, sent_primary, sent_replica,
                      replica_operr, primary_failures, wrote_since_commit, close_called,
                      rollback_called, pending, durable, exit_kind>>
       /\ UNCHANGED <<store_vars, auth_vars, gate_vars, cache_vars, io_vars>>

\* The concurrent request commits on its own session.
PeerCommit(pOut) ==
    /\ gpc = "idle"
    /\ cpc = "idle"
    /\ peer.kind # "none"
    /\ peer' = IF pOut = "ok"
               THEN PeerSession(FALSE, "commit", "primary", peer.use_primary_next,
                                use_primary_next)
               ELSE peer
    /\ UNCHANGED <<use_primary_next, rpc, statement, attempt, result, last_op, served,
                   fetched, primary_conn, replica_conn, sent_primary, sent_replica,
                   replica_operr, primary_failures, wrote_since_commit, close_called,
                   rollback_called, pending, durable, exit_kind>>
    /\ UNCHANGED <<store_vars, auth_vars, gate_vars, cache_vars, io_vars>>

\* The concurrent request ends and another one obtains a fresh session.
PeerNewSession ==
    /\ gpc = "idle"
    /\ cpc = "idle"
    /\ peer # NoPeer
    /\ peer' = NoPeer
    /\ UNCHANGED <<use_primary_next, rpc, statement, attempt, result, last_op, served,
                   fetched, primary_conn, replica_conn, sent_primary, sent_replica,
                   replica_operr, primary_failures, wrote_since_commit, close_called,
                   rollback_called, pending, durable, exit_kind>>
    /\ UNCHANGED <<store_vars, auth_vars, gate_vars, cache_vars, io_vars>>

\* RoutingAsyncSession.__init__ on two fresh sessions (get_routing_session).
NewSession ==
    /\ use_primary_next = FALSE
    /\ rpc = "idle"
    /\ statement = NoStatement
    /\ attempt = 0
    /\ result = "none"
    /\ last_op = "none"
    /\ served = "none"
    /\ fetched = {}
    /\ primary_conn = "open"
    /\ replica_conn = "open"
    /\ sent_primary = 0
    /\ sent_replica = 0
    /\ replica_operr = FALSE
    /\ primary_failures = 0
    /\ wrote_since_commit = FALSE
    /\ close_called = {}
    /\ peer = NoPeer
    /\ rollback_called = {}
    /\ pending = FALSE
    /\ durable = FALSE
    /\ exit_kind = "none"

\* The next request obtains its own session.
GetRoutingSession ==
    /\ rpc = "closed"
    /\ use_primary_next' = FALSE
    /\ rpc' = "idle"
    /\ statement' = NoStatement
    /\ attempt' = 0
    /\ result' = "none"
    /\ last_op' = "none"
    /\ served' = "none"
    /\ fetched' = {}
    /\ primary_conn' = "open"
    /\ replica_conn' = "open"
    /\ sent_primary' = 0
    /\ sent_replica' = 0
    /\ replica_operr' = FALSE
    /\ primary_failures' = 0
    /\ wrote_since_commit' = FALSE
    /\ close_called' = {}
    /\ peer' = peer
    /\ rollback_called' = {}
    /\ pending' = FALSE
    /\ durable' = FALSE
    /\ exit_kind' = "none"
    /\ gpc' = "idle"
    /\ token' = Garbage
    /\ payload' = NoPayload
    /\ cache_key' = ""
    /\ cached_data' = CacheNone
    /\ cache_error' = FALSE
    /\ cache_kept' = TRUE
    /\ queried' = <<>>
    /\ outcome' = NoOutcome
    /\ primary_had_row' = FALSE
    /\ cpc' = "idle"
    /\ api_name' = ""
    /\ current_user' = NoContext
    /\ gate_outcome' = NoOutcome
    /\ UNCHANGED <<store_vars, cache_vars, io_vars>>

----------------------------------------------------------------------------
\* get_current_user (dependency.py), one action per stretch between awaits.

GcuRaise(error) ==
    /\ gpc' = "done"
    /\ outcome' = error

\* Lines 38-73: the token is validated and the Session row is asked for.
GcuStart(t) ==
    LET d == DecodeToken(t, Now) IN
    /\ gpc = "idle"
    /\ cpc = "idle"
    /\ rpc = "idle"
    /\ last_op = "none"
    /\ token' = t
    /\ IF d.ok
       THEN /\ payload' = d.payload
            /\ gpc' = "session"
            /\ queried' = <<"session">>
            /\ BeginExecute(Stmt("Select", "session"))
            /\ UNCHANGED outcome
       ELSE /\ GcuRaise(d.error)
            /\ UNCHANGED <<payload, queried, routing_vars>>
    /\ primary_had_row' = (t \in primary_sessions)
    /\ UNCHANGED <<cache_key, cached_data, cache_error, cache_kept, store_vars, gate_vars, cache_vars, io_vars>>

\* CacheManager.create_tenant_key: f"{prefix}:{user_id}:{tenant_id}"
CreateTenantKey(prefix, user_id, tenant_id) ==
    prefix \o ":" \o user_id \o ":" \o tenant_id

\* CacheManager.create_privilege_key: f"userprivilege:{tenant_id}:{user_id}"
CreatePrivilegeKey(tenant_id, user_id) ==
    "userprivilege:" \o tenant_id \o ":" \o user_id

\* The privilege keys the cache may hold entries under.
CacheKeys ==
    {CreatePrivilegeKey(T1, U1), CreatePrivilegeKey(NoneStr, U1),
     CreatePrivilegeKey(T1, U2), CreatePrivilegeKey(T2, U1)}

\* The entry of another user or tenant.
OtherEntry ==
    Bundle(UserDetails("z@x.io", U2, T2, "active"), TRUE,
           <<Entry("other", PrivStr("secret"))>>)

\* A cache that holds v under key and the entry of somebody else under
\* every other privilege key.
CacheStore(key, v) ==
    [k \in CacheKeys \cup {key} |-> IF k = key THEN v ELSE OtherEntry]

\* A lookup that answers with an entry stored under a different key.
RedisGetOtherKey(store, key) ==
    store[CHOOSE k \in DOMAIN store : k # key]

\* self._redis_client.get(key)
RedisGet(store, key) == store[key]

\* A key laid out as the tenant keys are.
CacheKeyUserFirst(p) ==
    CreateTenantKey("userprivilege", p.user_id,
                    IF p.tenant_id = NoneStr THEN NoneStr ELSE p.tenant_id)

\* f"userprivilege:{...}:{payload['user_id']}"
CacheKey(p) ==
    "userprivilege:" \o (IF p.tenant_id = NoneStr THEN NoneStr ELSE p.tenant_id)
    \o ":" \o p.user_id

\* Lines 74-87: the Session row is checked; for a super admin the admin row
\* is asked for.
GcuSession ==
    /\ gpc = "session"
    /\ rpc = "idle"
    /\ IF result # "ok"
       THEN /\ GcuRaise(HttpError(500, "Internal server error"))
            /\ UNCHANGED <<cache_key, queried, routing_vars>>
       ELSE IF fetched = {}
       THEN /\ GcuRaise(HttpError(401, "Session not found or logged out"))
            /\ UNCHANGED <<cache_key, queried, routing_vars>>
       ELSE /\ cache_key' = CacheKey(payload)
            /\ IF payload.tenant_id # NoneStr
               THEN /\ gpc' = "cache"
                    /\ UNCHANGED <<outcome, queried, routing_vars>>
               ELSE IF ~IsUuid(payload.user_id)
               THEN \* UUID(payload["user_id"]) raises ValueError
                    /\ GcuRaise(HttpError(500, "Internal server error"))
                    /\ UNCHANGED <<queried, routing_vars>>
               ELSE /\ gpc' = "admin"
                    /\ queried' = Append(queried, "super_admin")
                    /\ BeginExecute(Stmt("Select", "super_admin"))
                    /\ UNCHANGED outcome
    /\ UNCHANGED <<token, payload, cached_data, cache_error, cache_kept, primary_had_row, store_vars, gate_vars, cache_vars, io_vars>>

IsAdminRowFoundAlways(rows) == TRUE

\* result.scalars().first() is a row
IsAdminRowFound(rows) == rows # {}

\* Lines 84-87: the admin row is checked.
GcuAdmin ==
    /\ gpc = "admin"
    /\ rpc = "idle"
    /\ IF result # "ok"
       THEN GcuRaise(HttpError(500, "Internal server error"))
       ELSE IF ~IsAdminRowFound(fetched)
       THEN GcuRaise(HttpError(403, "User is not a super admin"))
       ELSE gpc' = "cache" /\ UNCHANGED outcome
    /\ UNCHANGED <<token, payload, cache_key, cached_data, cache_error, cache_kept, queried, primary_had_row,
                   routing_vars, store_vars, gate_vars, cache_vars, io_vars>>

\* How a call on the Redis client can end.
RedisOutcomes == {"ok", "RedisError"}

\* CacheManager.get: the stored value, or None when the client raises
\* RedisError (the except branch logs and returns None).
CacheGet(stored, redis) == IF redis = "RedisError" THEN CacheNone ELSE stored

\* A get that drops the key when the client raises.
CacheAfterGetEvicts(stored, redis) == IF redis = "RedisError" THEN CacheNone ELSE stored

\* What the cache holds under the key after CacheManager.get: the only
\* command sent is GET, in the normal and in the except branch.
CacheAfterGet(stored, redis) == stored

\* Lines 89-140: the cache is read (v is what it holds under cache_key) and
\* the result is built from it.
GcuCache(v, redis) ==
    LET got == CacheGet(RedisGet(CacheStore(cache_key, v), cache_key), redis) IN
    /\ gpc = "cache"
    /\ cached_data' = got
    /\ cache_error' = (redis = "RedisError")
    /\ cache_kept' = (CacheAfterGet(v, redis) = v)
    /\ queried' = Append(queried, "cache")
    /\ gpc' = "done"
    /\ outcome' = FromCache(got, payload, payload.tenant_id = NoneStr)
    /\ UNCHANGED <<token, payload, cache_key, primary_had_row, routing_vars, store_vars,
                   gate_vars, cache_vars, io_vars>>

----------------------------------------------------------------------------
\* check_api_permissions (utils/api_permission.py).

PermList(perms) == [kind |-> "list", perms |-> perms, keys |-> <<>>]

\* An entry that maps sub-resources (keys, in order) to their lists.
PermDict(keys, lists) == [kind |-> "dict", perms |-> lists, keys |-> keys]

\* The API names of API_PERMISSIONS the model carries.
ApiNames == {"user_invite", "get_users", "assign_privilege", "upload_to_s3"}

\* API_PERMISSIONS[api_name]
ApiPermissions(api) ==
    CASE api = "user_invite" -> PermList(<<"user_management:create">>)
      [] api = "get_users" -> PermList(<<"user_management:view">>)
      [] api = "assign_privilege" -> PermList(<<"privilege:assign">>)
      [] api = "upload_to_s3" ->
            PermDict(<<"freight_rate", "tariff_rate">>,
                     <<<<"freight_rate:import">>, <<"tariff_rate:import">>>>)

\* The names check_api_permissions is called with.
RequestedApis == ApiNames \cup {"unregistered_api_xyz"}

\* The user-contexts check_api_permissions is called with; NoContext is the
\* empty dict.
Contexts ==
    {NoContext} \cup
    {Context(U1, t, ps) :
        t \in {T1, NoneStr, Absent},
        ps \in {<<>>, <<"user_management:create">>,
                <<"User_Management:Create", "user_management">>,
                <<"user_management:view", "privilege:assign">>,
                <<"freight_rate:import", "tariff_rate:import">>}}

\* check_api_permissions returned None.
GateOk == [status |-> 200, detail |-> "", users |-> <<>>, message |-> Absent]

Range(seq) == {seq[i] : i \in 1..Len(seq)}

\* Iterating required_permissions: the elements of a list, the keys of a dict.
Iterate(entry) == IF entry.kind = "list" THEN entry.perms ELSE entry.keys

\* A permission check that passes any user holding some privilege.
PermissionCheckAnyPrivilege(api, ctx) ==
    IF ctx.privileges = <<>>
    THEN HttpError(403, "Access denied - You don't have permission for:" \o api)
    ELSE GateOk

\* Lines 48-56: the required permissions against the user's privileges.
PermissionCheck(api, ctx) ==
    LET Held(perm) == perm \in Range(ctx.privileges)
        missing_permissions ==
            SelectSeq(Iterate(ApiPermissions(api)), LAMBDA perm : ~Held(perm))
    IN IF missing_permissions # <<>>
       THEN HttpError(403, "Access denied - You don't have permission for:" \o api)
       ELSE GateOk

\* Lines 31-43, the body of the try block: what it raises, NoOutcome if
\* nothing. res is how db.execute ended, rows what it returned.
StatusCheck(res, rows) ==
    IF res # "ok" THEN HttpError(500, "RetryError")
    ELSE IF rows = {} \/ (CHOOSE r \in rows : TRUE).status # "active"
    THEN HttpError(403, "User is not Active in this tenant")
    ELSE NoOutcome

\* Lines 44-46: except Exception around the try block.
ExceptException(raised) ==
    IF raised = NoOutcome THEN NoOutcome
    ELSE HttpError(500, "Internal server error during user status check")

\* if tenant_id and tenant_id != "None"
\* A test that takes the sentinel "None" for a tenant.
TenantScopedSentinelToo(ctx) == ctx.tenant_id # Absent

TenantScoped(ctx) == ctx.tenant_id # Absent /\ ctx.tenant_id # NoneStr

\* Early checks that look at the user before the API name.
EarlyChecksUserFirst(api, ctx) ==
    IF ctx = NoContext THEN HttpError(404, "No User Found")
    ELSE IF api \notin ApiNames
    THEN HttpError(400, "API '" \o api \o "' is not defined in permission mapping")
    ELSE NoOutcome

\* Lines 16-24: what the checks before the membership query raise, NoOutcome
\* if nothing.
EarlyChecks(api, ctx) ==
    IF api \notin ApiNames
    THEN HttpError(400, "API '" \o api \o "' is not defined in permission mapping")
    ELSE IF ctx = NoContext THEN HttpError(404, "No User Found")
    ELSE NoOutcome

\* The table holds an active membership row of the context's user and tenant.
ActiveMember(ctx, rows) ==
    \E r \in rows :
        r.user_id = ctx.user_id /\ r.tenant_id = ctx.tenant_id /\ r.status = "active"

\* Lines 16-38: up to the membership query.
GateStart(api, ctx) ==
    /\ cpc = "idle"
    /\ gpc = "idle"
    /\ rpc = "idle"
    /\ api_name' = api
    /\ current_user' = ctx
    /\ IF EarlyChecks(api, ctx) # NoOutcome
       THEN /\ gate_outcome' = EarlyChecks(api, ctx)
            /\ cpc' = "done"
            /\ UNCHANGED routing_vars
       ELSE IF TenantScoped(ctx)
       THEN /\ cpc' = "membership"
            /\ BeginExecute(Stmt("Select", "membership"))
            /\ UNCHANGED gate_outcome
       ELSE /\ gate_outcome' = PermissionCheck(api, ctx)
            /\ cpc' = "done"
            /\ UNCHANGED routing_vars
    /\ primary_had_row' = ActiveMember(ctx, primary_tenant_users)
    /\ UNCHANGED <<gpc, token, payload, cache_key, cached_data, cache_error, cache_kept, queried, outcome>>
    /\ UNCHANGED <<store_vars, cache_vars, io_vars>>

\* Lines 39-56: the membership row is checked, then the permissions.
GateMembership ==
    LET raised == ExceptException(StatusCheck(result, fetched)) IN
    /\ cpc = "membership"
    /\ rpc = "idle"
    /\ cpc' = "done"
    /\ gate_outcome' = IF raised # NoOutcome THEN raised
                       ELSE PermissionCheck(api_name, current_user)
    /\ UNCHANGED <<api_name, current_user, routing_vars, store_vars, auth_vars, cache_vars, io_vars>>

----------------------------------------------------------------------------
\* The flows that change the stores.

\* Login: a Session row is created on primary for the token issued.
Login(t) ==
    /\ t \notin primary_sessions
    /\ Cardinality(primary_sessions) < MaxSessions
    /\ primary_sessions' = primary_sessions \cup {t}
    /\ primary_had_row' = (primary_had_row \/ (gpc # "idle" /\ t = token))
    /\ UNCHANGED <<gpc, token, payload, cache_key, cached_data, cache_error, cache_kept, queried, outcome>>
    /\ UNCHANGED <<replica_sessions, primary_tenant_users, replica_tenant_users,
                   routing_vars, gate_vars, cache_vars, io_vars>>

\* Logout: the Session row of the token is soft-deleted on primary.
Logout(t) ==
    /\ t \in primary_sessions
    /\ primary_sessions' = primary_sessions \ {t}
    /\ UNCHANGED <<replica_sessions, primary_tenant_users, replica_tenant_users,
                   routing_vars, auth_vars, gate_vars, cache_vars, io_vars>>

\* The membership of the user in the tenant is set to a status on primary
\* (the user is activated or suspended).
SetMembership(st) ==
    /\ primary_tenant_users # {TenantUserRow(U1, T1, FALSE, st)}
    /\ primary_tenant_users' = {TenantUserRow(U1, T1, FALSE, st)}
    /\ primary_had_row' =
          (primary_had_row \/ (cpc = "membership" /\ ActiveMember(current_user, primary_tenant_users')))
    /\ UNCHANGED <<gpc, token, payload, cache_key, cached_data, cache_error, cache_kept, queried, outcome>>
    /\ UNCHANGED <<primary_sessions, replica_sessions, replica_tenant_users,
                   routing_vars, gate_vars, cache_vars, io_vars>>

\* The membership row of the user in the tenant is removed on primary.
RemoveMembership ==
    /\ primary_tenant_users # {}
    /\ primary_tenant_users' = {}
    /\ UNCHANGED <<primary_sessions, replica_sessions, replica_tenant_users,
                   routing_vars, auth_vars, gate_vars, cache_vars, io_vars>>

\* The replica catches up with primary.
Replicate ==
    /\ <<replica_sessions, replica_tenant_users>> #
          <<primary_sessions, primary_tenant_users>>
    /\ replica_sessions' = primary_sessions
    /\ replica_tenant_users' = primary_tenant_users
    /\ UNCHANGED <<primary_sessions, primary_tenant_users, routing_vars, auth_vars,
                   gate_vars, cache_vars, io_vars>>

----------------------------------------------------------------------------
\* CacheManager (cacheManager.py): the data operations.

\* The values callers hand to the cache, as Python writes them.
PyValues == {"None", "(1, 2)"}

\* _serialize_value: json.dumps(value, default=str). A tuple is written as a
\* JSON array.
SerializeValue(v) ==
    CASE v = "None" -> "null"
      [] v = "(1, 2)" -> "[1, 2]"
      [] OTHER -> v

\* _deserialize_value: json.loads(value); a JSON array is read as a list, and
\* a text that is neither JSON nor a pickle is returned as it is.
DeserializeValue(text) ==
    CASE text = "null" -> "None"
      [] OTHER -> text

\* What Redis answers to TTL: no such key, a key without expiry.
NoKeyTtl == "-2"
NoExpiry == "-1"

\* The expire argument: None, or a number of seconds.
ExpireArgs == {"None", "60"}

\* The largest counter value INCR is followed to.
MaxCount == 2

\* What the server holds under a key: nothing, a string (text; n is its
\* value when INCR wrote it, 0 otherwise), a hash with the field "f", a set.
NoEntry == [type |-> "none", text |-> "", n |-> 0, ttl |-> NoKeyTtl, members |-> {}]

StringEntry(text, ttl) ==
    [type |-> "string", text |-> text, n |-> 0, ttl |-> ttl, members |-> {}]

CounterEntry(n, ttl) ==
    [type |-> "string", text |-> ToString(n), n |-> n, ttl |-> ttl, members |-> {}]

HashEntry(text, ttl) ==
    [type |-> "hash", text |-> text, n |-> 0, ttl |-> ttl, members |-> {}]

SetEntry(members, ttl) ==
    [type |-> "set", text |-> "", n |-> 0, ttl |-> ttl, members |-> members]

\* key_prefix and func.__name__ of the wrapped function.
KeyPrefix == "p"
FuncName == "f"

\* f"{key_prefix}:{func.__name__}:{hash(str(args) + str(sorted(kwargs.items())))}"
HashKey(args) == KeyPrefix \o ":" \o FuncName \o ":hash(" \o args \o ")"

\* The positional arguments the wrapped function is called with: user_id and
\* tenant_id, the second possibly None.
WrapArgs == {<<"u1", "t1">>, <<"u1", "None">>}

\* str(args) + str(sorted(kwargs.items()))
ArgText(args) == "('" \o args[1] \o "', " \o
                 (IF args[2] = "None" THEN "None" ELSE "'" \o args[2] \o "'") \o ")[]"

\* The keys the model follows.
RedisKeys ==
    {HashKey(ArgText(a)) : a \in WrapArgs} \cup {CreateTenantKey(KeyPrefix, "u1", "t1")}

\* The key the data operations of the model are called with.
DataKey == CreateTenantKey(KeyPrefix, "u1", "t1")

EmptyDb == [k \in RedisKeys |-> NoEntry]

\* An operation returned value to its caller.
Returned(value, db) == [failed |-> FALSE, raised |-> "none", value |-> value, db |-> db]

\* An operation let exc reach its caller.
Raised(exc, db) == [failed |-> TRUE, raised |-> exc, value |-> "", db |-> db]

\* The return statement of the except RedisError branch of each operation.
ErrorDefault(op) ==
    CASE op \in {"get", "hget", "incr"} -> "None"
      [] op \in {"set", "delete", "exists", "expire", "hset", "flushdb"} -> "False"
      [] op = "ttl" -> "-1"
      [] op = "sadd" -> "0"
      [] op = "hgetall" -> "{}"
      [] op = "smembers" -> "[]"

\* An except branch of get that logs and raises again.
OnRedisErrorGetRaises(op, db) ==
    IF op = "get" THEN Raised("RedisError", db)
    ELSE [failed |-> TRUE, raised |-> "none", value |-> ErrorDefault(op), db |-> db]

\* except RedisError as e: log, return the default.
OnRedisError(op, db) ==
    [failed |-> TRUE, raised |-> "none", value |-> ErrorDefault(op), db |-> db]

\* The command fails on the server because the key holds another type
\* (ResponseError, a RedisError).
WrongType(e, types) == e.type \notin types

\* bool(result) as Python writes it.
PyBool(b) == IF b THEN "True" ELSE "False"

\* The body of each operation when the client answers: what it returns and
\* what the server holds afterwards.
GetBody(db, key) ==
    LET e == db[key] IN
    IF WrongType(e, {"none", "string"}) THEN OnRedisError("get", db)
    ELSE IF e.type = "none" THEN Returned("None", db)
    ELSE Returned(DeserializeValue(e.text), db)

SetBody(db, key, value, expire) ==
    Returned("True",
             [db EXCEPT ![key] = StringEntry(SerializeValue(value),
                                             IF expire = "None" THEN NoExpiry ELSE expire)])

DeleteBody(db, key) ==
    Returned(PyBool(db[key].type # "none"), [db EXCEPT ![key] = NoEntry])

ExistsBody(db, key) == Returned(PyBool(db[key].type # "none"), db)

ExpireBody(db, key, expire) ==
    IF db[key].type = "none" THEN Returned("False", db)
    ELSE Returned("True", [db EXCEPT ![key].ttl = expire])

TtlBody(db, key) == Returned(db[key].ttl, db)

IncrBody(db, key) ==
    LET e == db[key] IN
    IF e.type = "none" THEN Returned("1", [db EXCEPT ![key] = CounterEntry(1, NoExpiry)])
    ELSE IF e.type = "string" /\ e.n > 0
    THEN Returned(ToString(e.n + 1), [db EXCEPT ![key] = CounterEntry(e.n + 1, e.ttl)])
    ELSE OnRedisError("incr", db)

HsetBody(db, key, value) ==
    LET e == db[key] IN
    IF WrongType(e, {"none", "hash"}) THEN OnRedisError("hset", db)
    ELSE Returned("True",
                  [db EXCEPT ![key] = HashEntry(SerializeValue(value),
                                                IF e.type = "none" THEN NoExpiry ELSE e.ttl)])

HgetBody(db, key) ==
    LET e == db[key] IN
    IF WrongType(e, {"none", "hash"}) THEN OnRedisError("hget", db)
    ELSE IF e.type = "none" THEN Returned("None", db)
    ELSE Returned(DeserializeValue(e.text), db)

HgetallBody(db, key) ==
    LET e == db[key] IN
    IF WrongType(e, {"none", "hash"}) THEN OnRedisError("hgetall", db)
    ELSE IF e.type = "none" THEN Returned("{}", db)
    ELSE Returned("{'f': " \o DeserializeValue(e.text) \o "}", db)

SaddBody(db, key, value) ==
    LET e == db[key]
        m == SerializeValue(value) IN
    IF WrongType(e, {"none", "set"}) THEN OnRedisError("sadd", db)
    ELSE Returned(IF m \in e.members THEN "0" ELSE "1",
                  [db EXCEPT ![key] = SetEntry(e.members \cup {m},
                                               IF e.type = "none" THEN NoExpiry ELSE e.ttl)])

SmembersBody(db, key) ==
    LET e == db[key] IN
    IF WrongType(e, {"none", "set"}) THEN OnRedisError("smembers", db)
    ELSE IF e.members = {} THEN Returned("[]", db)
    ELSE Returned("[...]", db)

FlushdbBody(db) == Returned("True", EmptyDb)

\* No operation has been called.
NoOp == [op |-> "none", key |-> "", failed |-> FALSE, raised |-> "none", ret |-> ""]

\* No wrapped function is being called.
NoWrap ==
    [pc |-> "idle", kind |-> "none", args |-> <<>>, key |-> "", held |-> NoEntry,
     get_failed |-> FALSE, set_failed |-> FALSE, calls |-> 0, result |-> "",
     expire |-> "", ret |-> "", raised |-> "none"]

\* What an operation makes of the client's answer: redis is how the client
\* ends (the ping of initialize or the command), body the operation's result
\* when it answers, applied whether a command that ended in an error had
\* taken effect on the server all the same.
Guarded(op, redis, applied, body) ==
    IF redis = "RedisError"
    THEN OnRedisError(op, IF applied /\ redis_client THEN body.db ELSE redis_db)
    ELSE body

\* The record of an operation that ended as r.
OpRecord(op, key, r) ==
    [op |-> op, key |-> key, failed |-> r.failed, raised |-> r.raised, ret |-> r.value]

\* One data operation called by a handler, no wrapped call being under way.
DataOp(op, key, r) ==
    /\ wrap.pc \in {"idle", "done"}
    /\ wrap' = NoWrap
    /\ cm' = OpRecord(op, key, r)
    /\ redis_db' = r.db
    /\ redis_client' = TRUE
    /\ UNCHANGED <<routing_vars, store_vars, auth_vars, gate_vars, io_vars>>

CmGet(redis) ==
    DataOp("get", DataKey, Guarded("get", redis, FALSE, GetBody(redis_db, DataKey)))

CmSet(value, expire, redis, applied) ==
    DataOp("set", DataKey,
           Guarded("set", redis, applied, SetBody(redis_db, DataKey, value, expire)))

CmDelete(redis, applied) ==
    DataOp("delete", DataKey, Guarded("delete", redis, applied, DeleteBody(redis_db, DataKey)))

CmExists(redis) ==
    DataOp("exists", DataKey, Guarded("exists", redis, FALSE, ExistsBody(redis_db, DataKey)))

CmExpire(expire, redis, applied) ==
    DataOp("expire", DataKey,
           Guarded("expire", redis, applied, ExpireBody(redis_db, DataKey, expire)))

CmTtl(redis) ==
    DataOp("ttl", DataKey, Guarded("ttl", redis, FALSE, TtlBody(redis_db, DataKey)))

CmIncr(redis, applied) ==
    /\ redis_db[DataKey].n < MaxCount
    /\ DataOp("incr", DataKey, Guarded("incr", redis, applied, IncrBody(redis_db, DataKey)))

CmHset(value, redis, applied) ==
    DataOp("hset", DataKey,
           Guarded("hset", redis, applied, HsetBody(redis_db, DataKey, value)))

CmHget(redis) ==
    DataOp("hget", DataKey, Guarded("hget", redis, FALSE, HgetBody(redis_db, DataKey)))

CmHgetall(redis) ==
    DataOp("hgetall", DataKey,
           Guarded("hgetall", redis, FALSE, HgetallBody(redis_db, DataKey)))

CmSadd(value, redis, applied) ==
    DataOp("sadd", DataKey,
           Guarded("sadd", redis, applied, SaddBody(redis_db, DataKey, value)))

CmSmembers(redis) ==
    DataOp("smembers", DataKey,
           Guarded("smembers", redis, FALSE, SmembersBody(redis_db, DataKey)))

CmFlushdb(redis, applied) ==
    DataOp("flushdb", "", Guarded("flushdb", redis, applied, FlushdbBody(redis_db)))

----------------------------------------------------------------------------
\* CacheManager.cache and CacheManager.cache_with_tenant: async_wrapper.

\* The decorators.
WrapKinds == {"cache", "cache_with_tenant"}

\* The expire argument of the decorator.
WrapExpire == "60"

\* cache_key of async_wrapper. args[1] is user_id, args[2] tenant_id.
WrapKey(kind, args) ==
    IF kind = "cache_with_tenant" /\ args[1] # "None" /\ args[2] # "None"
    THEN CreateTenantKey(KeyPrefix, args[1], args[2])
    ELSE HashKey(ArgText(args))

\* cached_result = await self.get(cache_key); a value that is not None is
\* returned, otherwise the function is to be called.
WrapGet(kind, args, redis) ==
    LET key == WrapKey(kind, args)
        g == Guarded("get", redis, FALSE, GetBody(redis_db, key))
        w == [NoWrap EXCEPT !.kind = kind, !.args = args, !.key = key,
                            !.held = redis_db[key], !.get_failed = g.failed,
                            !.expire = WrapExpire]
    IN /\ wrap.pc \in {"idle", "done"}
       /\ cm' = OpRecord("get", key, g)
       /\ redis_client' = TRUE
       /\ wrap' = IF g.raised # "none"
                  THEN [w EXCEPT !.pc = "done", !.raised = g.raised]
                  ELSE IF g.value # "None"
                  THEN [w EXCEPT !.pc = "done", !.ret = g.value]
                  ELSE [w EXCEPT !.pc = "calling"]
       /\ UNCHANGED <<redis_db, routing_vars, store_vars, auth_vars, gate_vars, io_vars>>

\* result = await func(*args, **kwargs): the function returns func_result,
\* or raises.
WrapCall(func_result, raises) ==
    /\ wrap.pc = "calling"
    /\ wrap' = IF raises
               THEN [wrap EXCEPT !.pc = "done", !.calls = @ + 1, !.raised = "Exception"]
               ELSE [wrap EXCEPT !.pc = "storing", !.calls = @ + 1, !.result = func_result]
    /\ UNCHANGED <<redis_db, redis_client, cm, routing_vars, store_vars, auth_vars,
                   gate_vars, io_vars>>

\* await self.set(cache_key, result, expire); return result
WrapStore(redis, applied) ==
    LET s == Guarded("set", redis, applied,
                     SetBody(redis_db, wrap.key, wrap.result, wrap.expire))
    IN /\ wrap.pc = "storing"
       /\ cm' = OpRecord("set", wrap.key, s)
       /\ redis_db' = s.db
       /\ wrap' = [wrap EXCEPT !.pc = "done", !.ret = wrap.result,
                               !.set_failed = s.failed]
       /\ UNCHANGED <<redis_client, routing_vars, store_vars, auth_vars, gate_vars, io_vars>>

----------------------------------------------------------------------------
\* DecryptionMiddleware (middleware/decryption.py).

\* settings.decrypt_paths
DecryptPaths == {"/secure"}

\* The ASGI scopes of the requests: a websocket scope has no method, a
\* lifespan scope has neither method nor path.
Scopes ==
    { [type |-> "http", method |-> "POST", path |-> "/secure"],
      [type |-> "http", method |-> "GET", path |-> "/secure"],
      [type |-> "http", method |-> "POST", path |-> "/open"] }
    \cup { [type |-> "websocket", path |-> "/secure"] }
    \cup { [type |-> "lifespan"] }

\* The length a nonce must have, in bytes.
NonceBytes == 12

\* The base64 texts a client puts in 'encrypted' and in 'nonce'; "abc" has
\* a wrong padding, "" is the empty text.
EncTexts ==
    {"Y3Q6b2s=", "Y3Q6c3BhY2Vk", "Y3Q6dGV4dA==", "Y3Q6YmluYXJ5", "Y3Q6Zm9yZ2Vk",
     "Y3Q6c2hvcnQ=", "abc", ""}

NonceTexts == {"bm9uY2UtMTItYnl0", "bm9uY2UtMDg=", "abc", ""}

\* The request body with both fields, as the two chunks it may arrive in.
OuterHead(enc) == "{\"encrypted\": \"" \o enc \o "\", "

OuterTail(nonce) == "\"nonce\": \"" \o nonce \o "\"}"

OuterBody(enc, nonce) == OuterHead(enc) \o OuterTail(nonce)

OnlyEncrypted(enc) == "{\"encrypted\": \"" \o enc \o "\"}"

OnlyNonce(nonce) == "{" \o OuterTail(nonce)

\* json.loads on the texts of the model: the parsed value and its kind, or
\* a failure for a text that is not JSON.
JsonFailed == [ok |-> FALSE, kind |-> "none", value |-> <<>>]

JsonValue(kind, value) == [ok |-> TRUE, kind |-> kind, value |-> value]

JsonLoadsText(text) ==
    IF \E e \in EncTexts, n \in NonceTexts : text = OuterBody(e, n)
    THEN LET p == CHOOSE p \in EncTexts \X NonceTexts : text = OuterBody(p[1], p[2])
         IN JsonValue("object", [encrypted |-> p[1], nonce |-> p[2]])
    ELSE IF \E e \in EncTexts : text = OnlyEncrypted(e)
    THEN JsonValue("object",
                   [encrypted |-> CHOOSE e \in EncTexts : text = OnlyEncrypted(e)])
    ELSE IF \E n \in NonceTexts : text = OnlyNonce(n)
    THEN JsonValue("object", [nonce |-> CHOOSE n \in NonceTexts : text = OnlyNonce(n)])
    ELSE IF text \in {"{\"a\": 1}", "{ \"a\" : 1 }"}
    THEN JsonValue("object", [a |-> 1])
    ELSE IF text = "[]"
    THEN JsonValue("array", <<>>)
    ELSE JsonFailed

\* json.dumps of a value json.loads returned for a decrypted text.
JsonDumps(value) == "{\"a\": " \o ToString(value.a) \o "}"

\* body.get(key): None for an absent key; a value that is not a dict has no
\* get.
DictGet(value, key) == IF key \in DOMAIN value THEN value[key] ELSE NoneStr

\* 'not x' of Python for a text or None.
FalsyText(v) == v = NoneStr \/ v = ""

\* base64.b64decode: the bytes, or binascii.Error for a wrong padding.
B64Table ==
    [t \in (EncTexts \cup NonceTexts) \ {"abc"} |->
        CASE t = "Y3Q6b2s=" -> "ct:ok"
          [] t = "Y3Q6c3BhY2Vk" -> "ct:spaced"
          [] t = "Y3Q6dGV4dA==" -> "ct:text"
          [] t = "Y3Q6YmluYXJ5" -> "ct:binary"
          [] t = "Y3Q6Zm9yZ2Vk" -> "ct:forged"
          [] t = "Y3Q6c2hvcnQ=" -> "ct:short"
          [] t = "bm9uY2UtMTItYnl0" -> "nonce-12-byt"
          [] t = "bm9uY2UtMDg=" -> "nonce-08"
          [] t = "" -> ""]

B64Raises(text) == text \notin DOMAIN B64Table

B64Decode(text) == B64Table[text]

\* AESGCM(DECRYPTION_KEY).decrypt(nonce, data, None): the plaintext of a
\* ciphertext sealed with the key under that nonce, InvalidTag for any other
\* pair. "ct:short" was sealed under the 8-byte nonce, which AES-GCM accepts.
Sealed ==
    { <<"nonce-12-byt", "ct:ok", "{\"a\": 1}">>,
      <<"nonce-12-byt", "ct:spaced", "{ \"a\" : 1 }">>,
      <<"nonce-12-byt", "ct:text", "hello">>,
      <<"nonce-12-byt", "ct:binary", "\\xff">>,
      <<"nonce-08", "ct:short", "{\"a\": 1}">> }

AesGcmRaises(nonce, data) == ~\E s \in Sealed : s[1] = nonce /\ s[2] = data

AesGcmDecrypt(nonce, data) == (CHOOSE s \in Sealed : s[1] = nonce /\ s[2] = data)[3]

\* decrypted_bytes.decode("utf-8") raises for bytes that are not UTF-8.
Utf8Raises(bytes) == bytes = "\\xff"

\* status_code of the HTTPException the middleware raises.
BadRequest == 400

\* What the try block of __call__ ends in: the new body, or an HTTPException.
Http400(detail) == [status |-> BadRequest, detail |-> detail, body |-> ""]

Decrypted(new_body_bytes) == [status |-> 0, detail |-> "", body |-> new_body_bytes]

DecryptionFailed == Http400("Decryption failed")

\* if len(nonce) != 12
NonceLengthAny(nonce) == TRUE

NonceLengthOk(nonce) == Len(nonce) = NonceBytes

\* The try block, lines 51 to 112.
DecryptBody(body_bytes) ==
    LET body == JsonLoadsText(body_bytes)
    IN IF ~body.ok \/ body.kind # "object"
       THEN DecryptionFailed
       ELSE
       LET encrypted_b64 == DictGet(body.value, "encrypted")
           nonce_b64 == DictGet(body.value, "nonce")
       IN IF FalsyText(encrypted_b64) \/ FalsyText(nonce_b64)
          THEN Http400("Missing 'encrypted' or 'nonce' field")
          ELSE IF B64Raises(encrypted_b64) \/ B64Raises(nonce_b64)
          THEN Http400("Invalid base64 encoding in 'encrypted' or 'nonce'")
          ELSE
          LET encrypted_data == B64Decode(encrypted_b64)
              nonce == B64Decode(nonce_b64)
          IN IF ~NonceLengthOk(nonce)
             THEN Http400("Invalid nonce length (must be 12 bytes)")
             ELSE IF AesGcmRaises(nonce, encrypted_data)
             THEN DecryptionFailed
             ELSE
             LET decrypted_bytes == AesGcmDecrypt(nonce, encrypted_data)
             IN IF Utf8Raises(decrypted_bytes)
                THEN DecryptionFailed
                ELSE
                LET decrypted_json == JsonLoadsText(decrypted_bytes)
                IN IF ~decrypted_json.ok
                   THEN DecryptionFailed
                   ELSE Decrypted(JsonDumps(decrypted_json.value))

\* The messages of the receive channel. The last message of a body may leave
\* more_body out, and a disconnect carries neither body nor more_body.
More(body) == [type |-> "http.request", body |-> body, more_body |-> TRUE]

Last(body) == [type |-> "http.request", body |-> body, more_body |-> FALSE]

LastBare(body) == [type |-> "http.request", body |-> body]

Disconnect == [type |-> "http.disconnect"]

\* message.get(key, default)
MessageGet(message, key, default) ==
    IF key \in DOMAIN message THEN message[key] ELSE default

\* What a client sends: a body in one message or in two, or a body cut off
\* by a disconnect.
Channels ==
    { <<Last(OuterBody(e, n))>> : e \in EncTexts, n \in NonceTexts }
    \cup { <<More(OuterHead(e)), LastBare(OuterTail(n))>> :
             e \in {"Y3Q6b2s=", "Y3Q6Zm9yZ2Vk"}, n \in {"bm9uY2UtMTItYnl0"} }
    \cup { <<More(OuterHead("Y3Q6b2s=")), Disconnect>> }
    \cup { <<Last(OnlyEncrypted("Y3Q6b2s="))>>, <<Last(OnlyNonce("bm9uY2UtMTItYnl0"))>> }
    \cup { <<Last("[]")>>, <<Last("encrypted=Y3Q6b2s=")>>, <<Disconnect>> }

NoRequest ==
    [pc |-> "idle", scope |-> [type |-> "lifespan"], sent |-> <<>>, receive |-> <<>>,
     body_bytes |-> "", app_called |-> FALSE, app_receive |-> "none",
     app_body |-> "", status |-> 0, detail |-> ""]

\* The condition of line 36 to 40.
Intercepted(scope) ==
    /\ scope.type = "http"
    /\ scope.method = "POST"
    /\ scope.path \in DecryptPaths

\* __call__(scope, receive, send): a request that is not intercepted goes to
\* self.app with the receive it came with; for an intercepted one the body is
\* read first.
MwCall(scope, channel) ==
    /\ mw.pc \in {"idle", "done"}
    /\ mw' = IF Intercepted(scope)
             THEN [NoRequest EXCEPT !.pc = "reading", !.scope = scope,
                                    !.sent = channel, !.receive = channel]
             ELSE [NoRequest EXCEPT !.pc = "done", !.scope = scope,
                                    !.sent = channel, !.receive = channel,
                                    !.app_called = TRUE, !.app_receive = "receive"]
    /\ UNCHANGED <<sqs_queue, poll, routing_vars, store_vars, auth_vars, gate_vars,
                   cache_vars>>

\* One turn of the loop of lines 46 to 49 and, once more_body is false, the
\* try block and the call of self.app with new_receive.
MwReceive ==
    /\ mw.pc = "reading"
    /\ mw.receive # <<>>
    /\ LET message == Head(mw.receive)
           body_bytes == mw.body_bytes \o MessageGet(message, "body", "")
           more_body == MessageGet(message, "more_body", FALSE)
           d == DecryptBody(body_bytes)
       IN mw' = IF more_body
                THEN [mw EXCEPT !.receive = Tail(@), !.body_bytes = body_bytes]
                ELSE IF d.status # 0
                THEN [mw EXCEPT !.pc = "done", !.receive = Tail(@),
                                !.body_bytes = body_bytes,
                                !.status = d.status, !.detail = d.detail]
                ELSE [mw EXCEPT !.pc = "done", !.receive = Tail(@),
                                !.body_bytes = body_bytes,
                                !.app_called = TRUE, !.app_receive = "new_receive",
                                !.app_body = d.body]
    /\ UNCHANGED <<sqs_queue, poll, routing_vars, store_vars, auth_vars, gate_vars,
                   cache_vars>>

----------------------------------------------------------------------------
\* SQSQueueManager.poll_queue (sqs_manager.py).

\* The messages producers may send; the receipt handle of a message stands
\* for the message.
Messages == {"m1", "m2", "m3"}

\* max_number of the receive_messages call of poll_queue.
MaxNumber == 10

\* A message is "absent" until sent, "visible" in the queue, "inflight"
\* while its visibility timeout runs, and "deleted" for good.
EmptyQueue == [m \in Messages |-> "absent"]

NoPoll ==
    [pc |-> "receive", messages |-> <<>>, i |-> 1, slept |-> FALSE,
     returned |-> {}, raised |-> {}, running |-> TRUE]

\* The batches a receive_message call may answer with: some of the visible
\* messages, in any order, at most max_number of them.
Batches(queue) ==
    LET visible == {m \in Messages : queue[m] = "visible"}
    IN { b \in UNION { [1..n -> visible] : n \in 0..Cardinality(visible) } :
           /\ Len(b) <= MaxNumber
           /\ \A j, k \in DOMAIN b : b[j] = b[k] => j = k }

\* receive_messages: the messages of the response, which the queue hides for
\* the visibility timeout, or [] after a BotoCoreError or ClientError.
ReceiveMessages(queue, batch, fails) ==
    IF fails
    THEN [messages |-> <<>>, queue |-> queue]
    ELSE [messages |-> batch,
          queue |-> [m \in Messages |->
                       IF \E j \in DOMAIN batch : batch[j] = m
                       THEN "inflight" ELSE queue[m]]]

\* delete_message: the queue without the message, unless the client raised.
DeleteMessage(queue, receipt_handle, fails) ==
    IF fails THEN queue ELSE [queue EXCEPT ![receipt_handle] = "deleted"]

\* The body of the for loop with the delete in a finally clause.
TryHandlerDeleteAlways(queue, message, raises, delete_fails) ==
    DeleteMessage(queue, message, delete_fails)

\* The body of the for loop, lines 77 to 81: the delete follows the handler
\* inside the try, so a handler that raises skips it.
TryHandler(queue, message, raises, delete_fails) ==
    IF raises THEN queue ELSE DeleteMessage(queue, message, delete_fails)

\* A producer sends a message.
SqsSend(m) ==
    /\ sqs_queue[m] = "absent"
    /\ sqs_queue' = [sqs_queue EXCEPT ![m] = "visible"]
    /\ UNCHANGED <<mw, poll, routing_vars, store_vars, auth_vars, gate_vars, cache_vars>>

\* The visibility timeout of a received message runs out.
SqsVisible(m) ==
    /\ sqs_queue[m] = "inflight"
    /\ sqs_queue' = [sqs_queue EXCEPT ![m] = "visible"]
    /\ UNCHANGED <<mw, poll, routing_vars, store_vars, auth_vars, gate_vars, cache_vars>>

\* Lines 72 to 75: one receive; without messages the loop sleeps and polls
\* again.
PollReceive(batch, fails) ==
    /\ poll.pc = "receive"
    /\ poll.running
    /\ batch \in Batches(sqs_queue)
    /\ LET r == ReceiveMessages(sqs_queue, batch, fails)
       IN /\ sqs_queue' = r.queue
          /\ poll' = IF r.messages = <<>>
                     THEN [NoPoll EXCEPT !.slept = TRUE]
                     ELSE [NoPoll EXCEPT !.pc = "handle", !.messages = r.messages]
    /\ UNCHANGED <<mw, routing_vars, store_vars, auth_vars, gate_vars, cache_vars>>

\* Lines 76 to 81 for one message of the batch; after the last one the loop
\* polls again.
PollHandle(raises, delete_fails) ==
    /\ poll.pc = "handle"
    /\ poll.running
    /\ LET message == poll.messages[poll.i]
           last == poll.i = Len(poll.messages)
       IN /\ sqs_queue' = TryHandler(sqs_queue, message, raises, delete_fails)
          /\ poll' = [poll EXCEPT
                        !.pc = IF last THEN "receive" ELSE "handle",
                        !.i = IF last THEN @ ELSE @ + 1,
                        !.returned = IF raises THEN @ ELSE @ \cup {message},
                        !.raised = IF raises THEN @ \cup {message} ELSE @]
    /\ UNCHANGED <<mw, routing_vars, store_vars, auth_vars, gate_vars, cache_vars>>

----------------------------------------------------------------------------
\* Specifications.

NoCall ==
    /\ gpc = "idle"
    /\ token = Garbage
    /\ payload = NoPayload
    /\ cache_key = ""
    /\ cached_data = CacheNone
    /\ cache_error = FALSE
    /\ cache_kept = TRUE
    /\ queried = <<>>
    /\ outcome = NoOutcome
    /\ primary_had_row = FALSE
    /\ cpc = "idle"
    /\ api_name = ""
    /\ current_user = NoContext
    /\ gate_outcome = NoOutcome
    /\ redis_db = EmptyDb
    /\ redis_client = FALSE
    /\ cm = NoOp
    /\ wrap = NoWrap
    /\ mw = NoRequest
    /\ sqs_queue = EmptyQueue
    /\ poll = NoPoll

NoStores ==
    /\ primary_sessions = {}
    /\ replica_sessions = {}
    /\ primary_tenant_users = {}
    /\ replica_tenant_users = {}

InitRouting == NewSession /\ NoStores /\ NoCall

NextRouting ==
    \/ \E kind \in StatementKinds : Execute(kind)
    \/ \E rOut \in DbOutcomes, pOut \in DbOutcomes, fOut \in DbOutcomes :
          AttemptReturns(rOut, pOut, fOut)
    \/ \E rOut \in DbOutcomes, pOut \in DbOutcomes, fOut \in DbOutcomes :
          AttemptRetries(rOut, pOut, fOut)
    \/ \E rOut \in DbOutcomes, pOut \in DbOutcomes, fOut \in DbOutcomes :
          AttemptGivesUp(rOut, pOut, fOut)
    \/ \E pOut \in {"ok", "Error"} : Commit(pOut)
    \/ \E pOut \in {"ok", "Error"}, rOut \in {"ok", "Error"} : Rollback(pOut, rOut)
    \/ \E pOut \in {"ok", "Error"}, rOut \in {"ok", "Error"} : Close(pOut, rOut)
    \/ \E reached \in BOOLEAN : Cancel(reached)
    \/ \E how \in {"normal", "exception"} : RequestEnds(how)
    \/ GetRoutingSession

SpecRouting == InitRouting /\ [][NextRouting]_vars

\* Two requests run concurrently, each on the session it obtained.
NextConcurrent ==
    \/ \E kind \in StatementKinds : Execute(kind)
    \/ \E rOut \in DbOutcomes, pOut \in DbOutcomes, fOut \in DbOutcomes :
          AttemptReturns(rOut, pOut, fOut)
    \/ \E rOut \in DbOutcomes, pOut \in DbOutcomes, fOut \in DbOutcomes :
          AttemptRetries(rOut, pOut, fOut)
    \/ \E rOut \in DbOutcomes, pOut \in DbOutcomes, fOut \in DbOutcomes :
          AttemptGivesUp(rOut, pOut, fOut)
    \/ \E pOut \in {"ok", "Error"} : Commit(pOut)
    \/ \E pOut \in {"ok", "Error"}, rOut \in {"ok", "Error"} : Close(pOut, rOut)
    \/ GetRoutingSession
    \/ \E kind \in StatementKinds, rOut \in DbOutcomes, pOut \in DbOutcomes,
          fOut \in DbOutcomes : PeerExecute(kind, rOut, pOut, fOut)
    \/ \E pOut \in {"ok", "Error"} : PeerCommit(pOut)
    \/ PeerNewSession

SpecConcurrent == InitRouting /\ [][NextConcurrent]_vars

\* One attempt of a running execute comes to its end: the awaited calls on
\* the two sessions return or raise, and the fixed wait of the retry is over.
AttemptEnds ==
    \E rOut \in DbOutcomes, pOut \in DbOutcomes, fOut \in DbOutcomes :
        \/ AttemptReturns(rOut, pOut, fOut)
        \/ AttemptRetries(rOut, pOut, fOut)
        \/ AttemptGivesUp(rOut, pOut, fOut)

\* The finally of get_routing_session: close() is awaited once the request
\* has ended.
Finally ==
    /\ rpc = "exiting"
    /\ \E pOut \in {"ok", "Error"}, rOut \in {"ok", "Error"} : Close(pOut, rOut)

\* The routing session with every started attempt coming to its end and
\* every entered finally running.
SpecRoutingLive ==
    InitRouting /\ [][NextRouting]_vars /\ WF_vars(AttemptEnds) /\ WF_vars(Finally)

InitAuth ==
    /\ NewSession
    /\ NoCall
    /\ primary_sessions = {}
    /\ replica_sessions = {}
    /\ primary_tenant_users \in AdminTables
    /\ replica_tenant_users = primary_tenant_users

NextAuth ==
    \/ \E t \in Tokens : GcuStart(t)
    \/ \E rOut \in DbOutcomes, pOut \in DbOutcomes, fOut \in DbOutcomes :
          AttemptReturns(rOut, pOut, fOut)
    \/ \E rOut \in DbOutcomes, pOut \in DbOutcomes, fOut \in DbOutcomes :
          AttemptRetries(rOut, pOut, fOut)
    \/ \E rOut \in DbOutcomes, pOut \in DbOutcomes, fOut \in DbOutcomes :
          AttemptGivesUp(rOut, pOut, fOut)
    \/ GcuSession
    \/ GcuAdmin
    \/ \E v \in CacheValues, redis \in RedisOutcomes : GcuCache(v, redis)
    \/ \E pOut \in {"ok", "Error"}, rOut \in {"ok", "Error"} : Close(pOut, rOut)
    \/ GetRoutingSession
    \/ \E t \in IssuedTokens : Login(t)
    \/ \E t \in IssuedTokens : Logout(t)
    \/ Replicate

SpecAuth == InitAuth /\ [][NextAuth]_vars

\* The cache manager alone: handlers call its data operations and functions
\* wrapped by its decorators.
InitCache == NewSession /\ NoStores /\ NoCall

NextCache ==
    \/ \E redis \in RedisOutcomes : CmGet(redis)
    \/ \E value \in PyValues, expire \in ExpireArgs, redis \in RedisOutcomes,
          applied \in BOOLEAN : CmSet(value, expire, redis, applied)
    \/ \E redis \in RedisOutcomes, applied \in BOOLEAN : CmDelete(redis, applied)
    \/ \E redis \in RedisOutcomes : CmExists(redis)
    \/ \E redis \in RedisOutcomes, applied \in BOOLEAN : CmExpire(WrapExpire, redis, applied)
    \/ \E redis \in RedisOutcomes : CmTtl(redis)
    \/ \E redis \in RedisOutcomes, applied \in BOOLEAN : CmIncr(redis, applied)
    \/ \E value \in PyValues, redis \in RedisOutcomes, applied \in BOOLEAN :
          CmHset(value, redis, applied)
    \/ \E redis \in RedisOutcomes : CmHget(redis)
    \/ \E redis \in RedisOutcomes : CmHgetall(redis)
    \/ \E value \in PyValues, redis \in RedisOutcomes, applied \in BOOLEAN :
          CmSadd(value, redis, applied)
    \/ \E redis \in RedisOutcomes : CmSmembers(redis)
    \/ \E redis \in RedisOutcomes, applied \in BOOLEAN : CmFlushdb(redis, applied)
    \/ \E kind \in WrapKinds, args \in WrapArgs, redis \in RedisOutcomes :
          WrapGet(kind, args, redis)
    \/ \E func_result \in PyValues, raises \in BOOLEAN : WrapCall(func_result, raises)
    \/ \E redis \in RedisOutcomes, applied \in BOOLEAN : WrapStore(redis, applied)

SpecCache == InitCache /\ [][NextCache]_vars

\* DecryptionMiddleware alone: requests arrive one after the other.
InitDecrypt == NewSession /\ NoStores /\ NoCall

NextDecrypt ==
    \/ \E scope \in Scopes, channel \in Channels : MwCall(scope, channel)
    \/ MwReceive

SpecDecrypt == InitDecrypt /\ [][NextDecrypt]_vars

\* poll_queue with producers and the visibility timeout around it.
InitSqs == NewSession /\ NoStores /\ NoCall

NextSqs ==
    \/ \E m \in Messages : SqsSend(m)
    \/ \E m \in Messages : SqsVisible(m)
    \/ \E batch \in Batches(sqs_queue), fails \in BOOLEAN : PollReceive(batch, fails)
    \/ \E raises \in BOOLEAN, delete_fails \in BOOLEAN : PollHandle(raises, delete_fails)

SpecSqs == InitSqs /\ [][NextSqs]_vars

InitGate ==
    /\ NewSession
    /\ NoCall
    /\ primary_sessions = {}
    /\ replica_sessions = {}
    /\ primary_tenant_users \in MemberTables
    /\ replica_tenant_users = primary_tenant_users

NextGate ==
    \/ \E api \in RequestedApis, ctx \in Contexts : GateStart(api, ctx)
    \/ \E rOut \in DbOutcomes, pOut \in DbOutcomes, fOut \in DbOutcomes :
          AttemptReturns(rOut, pOut, fOut)
    \/ \E rOut \in DbOutcomes, pOut \in DbOutcomes, fOut \in DbOutcomes :
          AttemptRetries(rOut, pOut, fOut)
    \/ \E rOut \in DbOutcomes, pOut \in DbOutcomes, fOut \in DbOutcomes :
          AttemptGivesUp(rOut, pOut, fOut)
    \/ GateMembership
    \/ \E pOut \in {"ok", "Error"}, rOut \in {"ok", "Error"} : Close(pOut, rOut)
    \/ GetRoutingSession
    \/ \E st \in {"active", "suspended"} : SetMembership(st)
    \/ RemoveMembership
    \/ Replicate

SpecGate == InitGate /\ [][NextGate]_vars

----------------------------------------------------------------------------
\* The last session operation was an execute of a read that returned.
ReadReturned ==
    /\ rpc = "idle"
    /\ last_op = "execute"
    /\ result = "ok"
    /\ IsSelect(statement)

\* C1: a read that follows a write with no commit in between is executed on
\* primary and never on the replica, whatever happened while the write ran.
C1_ReadAfterWriteOnPrimary ==
    (ReadReturned /\ wrote_since_commit) => (served = "primary" /\ sent_replica = 0)

\* C8: a read on which the replica raised an operational error is sent to
\* primary in the same attempt, execute makes at most 3 attempts, the result
\* it returns then comes from primary, and it raises only if primary failed.
C8_ReplicaFailureNotSurfaced ==
    /\ attempt <= MaxAttempts
    /\ sent_replica <= MaxAttempts
    /\ (last_op = "execute" /\ IsSelect(statement) /\ replica_operr) =>
          /\ sent_primary > 0
          /\ rpc = "idle" /\ result = "ok" => served = "primary"
          /\ rpc = "idle" /\ result = "RetryError" => primary_failures > 0

C8_Witness ==
    /\ ReadReturned
    /\ replica_operr
    /\ served = "primary"
    /\ attempt > 1

\* C9: close() calls close on both connections, also when one close raises.
C9_CloseReleasesBoth ==
    last_op = "close" => close_called = {"primary", "replica"}

----------------------------------------------------------------------------
\* get_current_user has ended.
GcuDone == gpc = "done"

\* get_current_user returned a user-context.
GcuReturned == GcuDone /\ outcome.status = 200

\* The last store get_current_user asked was the cache.
CacheConsulted == GcuDone /\ queried # <<>> /\ queried[Len(queried)] = "cache"

\* No store holds a TenantUser row with is_admin = true for the user.
NoAdminRow(user_id) ==
    \A r \in primary_tenant_users \cup replica_tenant_users :
        ~(r.user_id = user_id /\ r.is_admin)

\* C2: with a signed, non-expired token whose tenant_id is "None" and no admin
\* row for its user, get_current_user never returns a user-context and never
\* reads the cache (so nothing the cache holds matters), and when the session
\* was found and the admin query answered, it fails 403 "not a super admin".
C2_NotSuperAdmin ==
    (GcuDone /\ token.sig /\ token.tenant_id = NoneStr /\ NoAdminRow(UuidStr(token.user_id)))
    => /\ ~GcuReturned
       /\ ~CacheConsulted
       /\ (queried = <<"session", "super_admin">> /\ last_op = "execute" /\ result = "ok")
             => outcome = HttpError(403, "User is not a super admin")

C2_Witness ==
    /\ GcuDone
    /\ token.tenant_id = NoneStr
    /\ token \in primary_sessions \cap replica_sessions
    /\ NoAdminRow(token.user_id)
    /\ outcome = HttpError(403, "User is not a super admin")

\* C3: when the token, the session and the admin check passed and the cache
\* holds nothing under the key, get_current_user fails "User not found in
\* cache" and returns no user-context.
C3_CacheMissFails ==
    (CacheConsulted /\ cached_data.type = "none")
    => outcome = HttpError(401, "User not found in cache")

C3_Witness ==
    /\ CacheConsulted
    /\ cached_data.type = "none"
    /\ queried = <<"session", "super_admin", "cache">>
    /\ outcome.status = 401

\* C4: get_current_user returns a user-context only if an active Session row
\* for the token existed (on primary) at some moment of the call, so a token
\* is rejected in every call that follows its logout.
C4_NoContextAfterLogout == GcuReturned => primary_had_row

\* C5: a signed token whose other claims are valid and whose exp is earlier
\* than the current time fails 401 "Token has expired", before any store is
\* asked, whatever sessions exist.
C5_ExpiredTokenFails ==
    (GcuDone /\ token.sig /\ token.exp.present /\ token.exp.value < Now
       /\ MissingFields(Claims(token)) = <<>> /\ BadUuidField(Claims(token)) = Absent)
    => (outcome = HttpError(401, "Token has expired") /\ queried = <<>>)

C5_Witness ==
    /\ GcuDone
    /\ token.exp.present /\ token.exp.value < Now
    /\ token \in primary_sessions \cap replica_sessions
    /\ outcome = HttpError(401, "Token has expired")

\* The number of strings one entry of the privileges map contributes.
EntrySize(e) == IF e.privs.kind = "list" THEN Len(e.privs.items) ELSE 1

\* The privilege an entry contributes at position j.
EntryItem(e, j) == IF e.privs.kind = "list" THEN e.privs.items[j] ELSE e.privs.value

RECURSIVE SizeBefore(_, _)
\* The number of strings the entries before entry i contribute.
SizeBefore(m, i) == IF i <= 1 THEN 0 ELSE SizeBefore(m, i - 1) + EntrySize(m[i - 1])

\* out holds, for each entry of m in order and each of its privileges in
\* order, the string "resource:privilege", and nothing else.
IsFlattening(out, m) ==
    /\ Len(out) = SizeBefore(m, Len(m) + 1)
    /\ \A i \in 1..Len(m) : \A j \in 1..EntrySize(m[i]) :
          out[SizeBefore(m, i) + j] = m[i].resource \o ":" \o EntryItem(m[i], j)

\* The privileges map of the cached value get_current_user read.
CachedPrivileges == IF cached_data.has_privileges THEN cached_data.privileges ELSE <<>>

\* The cached value is a dict, or the JSON text of one, with an active user.
WellFormedEntry ==
    /\ cached_data.type = "dict" \/ (cached_data.parses /\ cached_data.parsed_type = "dict")
    /\ cached_data.has_user
    /\ cached_data.user.status = "active"

\* C6: once the token and the session are accepted and the cache entry is
\* well formed, a user-context is returned, and the privileges of a returned
\* user-context are exactly the flattening of the cached privileges map, in
\* the map's order and each list's order.
C6_PrivilegesAreFlattened ==
    /\ (CacheConsulted /\ WellFormedEntry) => GcuReturned
    /\ GcuReturned =>
          /\ Len(outcome.users) = 1
          /\ IsFlattening(outcome.users[1].privileges, CachedPrivileges)

C6_Witness ==
    /\ GcuReturned
    /\ CachedPrivileges = <<Entry("user_management", PrivList(<<"create", "view">>)),
                            Entry("privilege", PrivStr("assign"))>>
    /\ outcome.users[1].privileges =
          <<"user_management:create", "user_management:view", "privilege:assign">>

\* The queries get_current_user issues for a payload when no check fails.
QueryOrder(p) ==
    IF p.tenant_id = NoneStr THEN <<"session", "super_admin", "cache">>
    ELSE <<"session", "cache">>

IsPrefix(a, b) == Len(a) <= Len(b) /\ a = SubSeq(b, 1, Len(a))

\* C7: the checks run in the order token, session, super admin, cache lookup,
\* cache structure, status; the error is that of the first failing check and
\* no store is asked after it.
C7_ChecksInOrder ==
    /\ IsPrefix(queried, QueryOrder(payload))
    /\ GcuDone =>
          /\ ~DecodeToken(token, Now).ok =>
                outcome = DecodeToken(token, Now).error /\ queried = <<>>
          /\ outcome = HttpError(401, "Session not found or logged out") =>
                queried = <<"session">>
          /\ outcome = HttpError(403, "User is not a super admin") =>
                queried = <<"session", "super_admin">>
          /\ CacheConsulted =>
                /\ queried = QueryOrder(payload)
                /\ Falsy(cached_data) => outcome = HttpError(401, "User not found in cache")
                /\ (cached_data.type = "str" /\ ~cached_data.parses) =>
                      outcome = HttpError(500, "Invalid cached data format")
                /\ (cached_data \in {ListValue, JsonStr(ListValue), NoUserDict}) =>
                      outcome = HttpError(500, "Invalid cached data structure")
                /\ (~Falsy(cached_data) /\ cached_data.has_user
                      /\ cached_data.user.status # "active") =>
                      outcome = HttpError(403, "User account is not active")
          /\ GcuReturned => CacheConsulted

C7_Witness ==
    /\ CacheConsulted
    /\ cached_data = NoUserDict
    /\ queried = <<"session", "super_admin", "cache">>
    /\ outcome = HttpError(500, "Invalid cached data structure")

----------------------------------------------------------------------------
\* check_api_permissions asked for the membership row and got an answer.
MembershipAnswered ==
    /\ cpc = "done"
    /\ last_op = "execute"
    /\ statement.query = "membership"
    /\ result = "ok"

\* C10: for a tenant-scoped user-context, check_api_permissions fails 403
\* "User is not Active in this tenant" when the membership query finds no row
\* or a row whose status is not "active".
C10_InactiveMembershipIs403 ==
    (MembershipAnswered /\ TenantScoped(current_user)
       /\ (fetched = {} \/ \A r \in fetched : r.status # "active"))
    => gate_outcome = HttpError(403, "User is not Active in this tenant")

\* C11: a check for a tenant-scoped user-context returns normally only if
\* the live (primary) store held an active membership row for that user and
\* tenant at some moment of the call, whatever privileges the context lists:
\* once the row is non-active or removed, no later check returns normally.
C11_GateRevalidatesMembership ==
    (cpc = "done" /\ TenantScoped(current_user) /\ gate_outcome = GateOk)
    => primary_had_row

\* The check got past the membership re-check: the context is not
\* tenant-scoped, or the membership query found an active row.
MembershipPassed ==
    /\ cpc = "done"
    /\ api_name \in ApiNames
    /\ current_user # NoContext
    /\ TenantScoped(current_user) =>
          (MembershipAnswered /\ \E r \in fetched : r.status = "active")

\* C12: for an API whose table entry maps sub-resources to lists, a user who
\* holds every privilege of one sub-resource's list passes the check.
C12_SubResourceListIsChecked ==
    (/\ MembershipPassed
     /\ ApiPermissions(api_name).kind = "dict"
     /\ \E i \in 1..Len(ApiPermissions(api_name).perms) :
           Range(ApiPermissions(api_name).perms[i]) \subseteq Range(current_user.privileges))
    => gate_outcome = GateOk

\* The table entry of the API checked is a flat list of privilege strings.
FlatEntry == api_name \in ApiNames /\ ApiPermissions(api_name).kind = "list"

\* Every string of the entry's list is, character for character, one of the
\* privileges of the user-context.
HoldsAllRequired ==
    \A i \in 1..Len(ApiPermissions(api_name).perms) :
        \E j \in 1..Len(current_user.privileges) :
            current_user.privileges[j] = ApiPermissions(api_name).perms[i]

\* C13: for an API with a flat list, a check that returns normally had every
\* required privilege in the context's privileges, and a check that got past
\* the membership re-check returns normally if they are all there and fails
\* with 403 naming the API otherwise.
C13_FlatListExactMatch ==
    /\ (cpc = "done" /\ FlatEntry /\ gate_outcome = GateOk) => HoldsAllRequired
    /\ (MembershipPassed /\ FlatEntry) =>
          gate_outcome =
             IF HoldsAllRequired THEN GateOk
             ELSE HttpError(403, "Access denied - You don't have permission for:" \o api_name)

C13_Witness ==
    /\ MembershipPassed
    /\ TenantScoped(current_user)
    /\ api_name = "user_invite"
    /\ current_user.privileges = <<"user_management:create">>
    /\ gate_outcome = GateOk

\* C14: a check with an API name that is not in the table fails with 400
\* naming the API, whatever the user-context and the membership are, and
\* submits nothing to either store.
C14_UnknownApiIs400 ==
    (cpc # "idle" /\ api_name \notin ApiNames) =>
        /\ cpc = "done"
        /\ gate_outcome =
              HttpError(400, "API '" \o api_name \o "' is not defined in permission mapping")
        /\ last_op \in {"none", "close"}
        /\ sent_primary = 0 /\ sent_replica = 0

C14_Witness ==
    /\ cpc = "done"
    /\ api_name = "unregistered_api_xyz"
    /\ current_user = NoContext
    /\ primary_tenant_users = {TenantUserRow(U1, T1, FALSE, "suspended")}
    /\ gate_outcome.status = 400

----------------------------------------------------------------------------
\* C15: during and after an execute of an Insert, Update or Delete, on every
\* attempt and every fallback, nothing was submitted to the replica session
\* and the result, if any, came from primary.
C15_WritesOnlyOnPrimary ==
    (last_op = "execute" /\ IsWrite(statement)) =>
        /\ sent_replica = 0
        /\ served \in {"none", "primary"}

C15_Witness ==
    /\ rpc = "idle"
    /\ last_op = "execute"
    /\ IsWrite(statement)
    /\ result = "ok"
    /\ attempt > 1
    /\ sent_primary > 2

\* C16: within one execute call a write is submitted to primary at most
\* once; a failure of primary on it is not followed by a re-submission.
C16_WriteSubmittedAtMostOnce ==
    (last_op = "execute" /\ IsWrite(statement)) => sent_primary <= 1

\* C17: one call of execute makes at most 3 attempts, raises to its caller
\* only after the third, submits to primary at most twice per attempt, and
\* always comes to an end.
C17_ExecuteTerminates ==
    /\ [](attempt <= MaxAttempts /\ sent_primary <= 2 * MaxAttempts)
    /\ []((rpc = "idle" /\ last_op = "execute" /\ result = "RetryError")
            => attempt = MaxAttempts)
    /\ (rpc = "running") ~> (rpc # "running")

\* Primary raised operational errors on every submission of three attempts
\* and the call ended with the failure.
C17_Witness ==
    /\ rpc = "idle"
    /\ last_op = "execute"
    /\ result = "RetryError"
    /\ attempt = MaxAttempts
    /\ primary_failures = 2 * MaxAttempts

\* C18: a commit leaves the replica session as it was; after a commit that
\* returned normally the transaction of primary is ended and
\* use_primary_next is false; and a read executed while use_primary_next is
\* false is submitted to the replica.
C18_CommitPrimaryOnly ==
    /\ [][last_op' = "commit" => replica_conn' = replica_conn]_vars
    /\ []((last_op = "commit" /\ result = "ok") =>
             (~use_primary_next /\ ~wrote_since_commit /\ primary_conn = "open"))
    /\ [][(last_op = "commit" /\ result = "ok" /\ rpc' = "running" /\ IsSelect(statement'))
            => (~use_primary_next' /\ attempt' = 1)]_vars
    /\ []((last_op = "execute" /\ IsSelect(statement) /\ ~use_primary_next
            /\ (rpc = "idle" \/ attempt > 1)) => sent_replica >= 1)

\* A read and a write were followed by a commit that returned normally.
C18_Witness ==
    /\ last_op = "commit"
    /\ result = "ok"
    /\ IsWrite(statement)
    /\ sent_primary >= 1
    /\ replica_conn = "in_tx"
    /\ ~use_primary_next

\* C19: after a rollback call each of the two sessions had its rollback
\* called: a transaction is left open on a session only if the rollback of
\* that very session raised.
C19_RollbackBoth ==
    last_op = "rollback" =>
        /\ "primary" \in rollback_called
        /\ replica_conn = "in_tx" => "replica" \in rollback_called

\* C20: however the request ends (it returns, it raises, or it is cancelled
\* while a statement is in flight), nothing but close() runs on its session
\* afterwards and close() does run; a close() that returned normally has
\* released both sessions and left no write in an open transaction; and a
\* write becomes durable in the primary store only by a commit that
\* returned normally.
C20_ClosedOnEveryExit ==
    /\ (rpc = "exiting") ~> (rpc = "closed" /\ "primary" \in close_called)
    /\ [][rpc = "exiting" => (rpc' = "closed" /\ last_op' = "close")]_vars
    /\ []((rpc = "closed" /\ result = "ok") =>
             (primary_conn = "closed" /\ replica_conn = "closed" /\ ~pending))
    /\ [][(~durable /\ durable') => (pending /\ last_op' = "commit" /\ result' = "ok")]_vars

\* A write was in flight and had reached primary when the request was
\* cancelled; the session was closed and the write is not in the store.
C20_Witness ==
    /\ rpc = "closed"
    /\ exit_kind = "cancelled"
    /\ IsWrite(statement)
    /\ sent_primary >= 1
    /\ close_called = {"primary", "replica"}
    /\ ~pending /\ ~durable

----------------------------------------------------------------------------
\* C21: two concurrent requests hold two sessions. A step of one session
\* leaves the flag and the routing record of the other as they were, and
\* where a statement is submitted first depends on the session's own
\* use_primary_next only: after a write on one session, a read on the other
\* still goes to the replica.
C21_SessionsIndependent ==
    /\ [][peer' # peer =>
            UNCHANGED <<use_primary_next, served, sent_primary, sent_replica>>]_vars
    /\ [][use_primary_next' # use_primary_next => peer' = peer]_vars
    /\ [](peer.kind \in StatementKinds =>
             peer.first = IF peer.kind = "Select" /\ ~peer.own_before
                          THEN "replica" ELSE "primary")
    /\ []((last_op = "execute" /\ IsSelect(statement) /\ ~use_primary_next
            /\ (rpc = "idle" \/ attempt > 1)) => sent_replica >= 1)

\* The concurrent request read from the replica while this session, after a
\* write, had its flag set.
C21_Witness ==
    /\ use_primary_next
    /\ peer.other_before
    /\ peer.kind = "Select"
    /\ peer.first = "replica"
    /\ ~peer.use_primary_next

----------------------------------------------------------------------------
\* The token passed jwt.decode: its signature verifies and the library did
\* not report it expired.
Verified(t) == t.sig /\ ~(t.exp.present /\ t.exp.value < Now)

\* The claim is there and is a string.
IsStringClaim(x) == x # Absent /\ x # Mistyped

\* All four claims are present and of the right type.
ClaimsComplete(t) ==
    /\ IsStringClaim(t.sub)
    /\ IsStringClaim(t.user_id)
    /\ IsStringClaim(t.tenant_id)
    /\ t.exp.present

\* C22: a verified token with complete claims whose user_id is no UUID, or
\* whose tenant_id is neither "None" nor a UUID, is rejected with 401
\* "Invalid <field> format" naming a field that does not parse, before any
\* lookup; user_id "None" included.
C22_BadUuidRejected ==
    (gpc = "done" /\ Verified(token) /\ ClaimsComplete(token)
       /\ (~IsUuid(token.user_id) \/ (token.tenant_id # NoneStr /\ ~IsUuid(token.tenant_id))))
    => /\ outcome.status = 401
       /\ outcome.detail \in {"Invalid user_id format", "Invalid tenant_id format"}
       /\ outcome.detail = "Invalid user_id format" => ~IsUuid(token.user_id)
       /\ outcome.detail = "Invalid tenant_id format" =>
             (token.tenant_id # NoneStr /\ ~IsUuid(token.tenant_id))
       /\ queried = <<>>

\* The required claim named f is present in the token and of its type.
ClaimOk(t, f) ==
    CASE f = "sub" -> IsStringClaim(t.sub)
      [] f = "user_id" -> IsStringClaim(t.user_id)
      [] f = "tenant_id" -> IsStringClaim(t.tenant_id)
      [] f = "exp" -> t.exp.present

\* The names of the claims that are missing or mistyped, in the order of
\* required_fields.
Offending(t) ==
    SelectSeq(<<"sub", "user_id", "tenant_id", "exp">>, LAMBDA f : ~ClaimOk(t, f))

TransportFailure ==
    \/ cache_error
    \/ last_op = "execute" /\ rpc = "idle" /\ result = "RetryError"

\* C24: a call during which a backing store failed in transport ends with
\* 503.
C24_TransportFailureIs503 ==
    (gpc = "done" /\ TransportFailure) => outcome.status = 503

\* The cache holds a value under the key and the read returned it.
CacheHit == CacheConsulted /\ ~cache_error /\ cached_data.type # "none"

\* The value read is a string that is not JSON.
UnparsableString == cached_data.type = "str" /\ ~cached_data.parses

\* The value read is, as it stands or once parsed, a map with the key "user".
MapWithUser ==
    /\ cached_data.type = "dict" \/ (cached_data.type = "str" /\ cached_data.parses
                                       /\ cached_data.parsed_type = "dict")
    /\ cached_data.has_user

\* C25: a cached value that is a string that does not parse, or that is not
\* a map with the key "user", makes the call fail with 500 and return no
\* user-context.
C25_CorruptEntryIs500 ==
    (CacheHit /\ (UnparsableString \/ ~MapWithUser)) =>
        /\ outcome.status = 500
        /\ outcome.users = <<>>

\* C26: a user-context is returned only when the cached user's status is
\* "active", and then its own status is "active"; a cached user with any
\* other status, or none, makes the call fail with 403.
C26_OnlyActiveReturned ==
    /\ GcuReturned =>
          /\ MapWithUser
          /\ cached_data.user.status = "active"
          /\ \A i \in 1..Len(outcome.users) : outcome.users[i].status = "active"
    /\ (CacheHit /\ MapWithUser /\ cached_data.user.status # "active") =>
          outcome = HttpError(403, "User account is not active")

C26_Witness ==
    /\ CacheHit
    /\ MapWithUser
    /\ cached_data.user.status = Absent
    /\ outcome.status = 403

\* C27: the tenant_id of a returned user-context is "None" for a token
\* whose tenant_id claim is "None", whatever the cached record holds; for
\* any other token it is the cached tenant_id if the record has one and the
\* (normalized) tenant_id claim if not.
C27_TenantOfContext ==
    GcuReturned =>
        outcome.users[1].tenant_id =
            IF token.tenant_id = NoneStr THEN NoneStr
            ELSE IF cached_data.user.tenant_id # Absent THEN cached_data.user.tenant_id
            ELSE UuidStr(token.tenant_id)

\* A super-admin call returned although the cached record names a tenant.
C27_Witness ==
    /\ GcuReturned
    /\ token.tenant_id = NoneStr
    /\ cached_data.user.tenant_id = T2
    /\ outcome.users[1].tenant_id = NoneStr

\* A tenant-scoped call returned the tenant of the cached record, which is
\* not the tenant of the claim.
TenantFromCache ==
    /\ GcuReturned
    /\ token.tenant_id = T1
    /\ outcome.users[1].tenant_id = T2

\* C28: a call that succeeds returns an envelope with exactly one
\* user-context, whose privileges are the flattened cached map; the message
\* is "No privileges assigned to user" exactly when that list is empty and
\* is null otherwise; an active cached user with no privilege is returned
\* with status 200, not refused.
C28_EnvelopeOfSuccess ==
    /\ GcuReturned =>
          /\ Len(outcome.users) = 1
          /\ outcome.users[1].privileges = Flatten(CachedPrivileges)
          /\ (outcome.message = "No privileges assigned to user")
                 <=> (outcome.users[1].privileges = <<>>)
          /\ (outcome.users[1].privileges # <<>>) => outcome.message = Absent
    /\ (CacheHit /\ MapWithUser /\ cached_data.user.status = "active"
           /\ Flatten(CachedPrivileges) = <<>>) => GcuReturned

\* A user whose only cached resource has an empty privilege list is
\* returned with the message.
C28_Witness ==
    /\ GcuReturned
    /\ cached_data.has_privileges
    /\ cached_data.privileges # <<>>
    /\ outcome.users[1].privileges = <<>>
    /\ outcome.message = "No privileges assigned to user"

\* A user with privileges is returned with a null message.
ReturnedWithPrivileges ==
    /\ GcuReturned
    /\ outcome.users[1].privileges # <<>>
    /\ outcome.message = Absent

\* A step taken by get_current_user or by the execute it awaits: the call
\* has not ended and its position, or that of the execute, moves.
GcuStep ==
    /\ gpc # "done"
    /\ gpc' # gpc \/ (gpc # "idle" /\ (rpc' # rpc \/ attempt' # attempt))

\* C29: get_current_user only reads. None of its steps, whether the call
\* ends in a user-context or in an error, changes the Session rows, the
\* TenantUser rows or what the cache holds; the statements it submits are
\* not writes, nothing becomes pending or durable, no commit is issued and
\* use_primary_next keeps the value it had.
C29_PureReadPath ==
    [][GcuStep =>
          /\ UNCHANGED store_vars
          /\ cache_kept'
          /\ ~IsWrite(statement')
          /\ pending' = pending /\ durable' = durable
          /\ wrote_since_commit' = wrote_since_commit
          /\ last_op' # "commit"
          /\ use_primary_next' = use_primary_next]_vars

\* A call ended in a user-context after both lookups and the cache read,
\* with the Session and TenantUser rows it read still in place.
C29_Witness ==
    /\ GcuReturned
    /\ queried = <<"session", "super_admin", "cache">>
    /\ token \in primary_sessions
    /\ primary_tenant_users # {}
    /\ cache_kept
    /\ ~pending /\ ~use_primary_next

\* A call ended in an error after the cache read failed inside the client.
FailedAfterCacheError ==
    /\ GcuDone
    /\ outcome.status = 401
    /\ cache_error
    /\ cache_kept

\* What the gate answers from the API name and a privilege list alone.
OutcomeByPrivileges(api, privileges) ==
    IF api \notin ApiNames
    THEN HttpError(400, "API '" \o api \o "' is not defined in permission mapping")
    ELSE PermissionCheck(api, Context(Absent, Absent, privileges))

\* The gate has answered a user-context whose tenant_id is "None" or unset.
UnscopedAnswered ==
    /\ cpc = "done"
    /\ current_user # NoContext
    /\ current_user.tenant_id \in {NoneStr, Absent}

\* C30: for a user-context whose tenant_id is "None" or unset the gate
\* submits no statement at all, so no membership lookup; it answers in the
\* step that received the call, and its answer is a function of the API
\* name and the privileges of the context, whatever TenantUser rows the
\* primary and the replica hold.
C30_UnscopedSkipsMembership ==
    /\ [](UnscopedAnswered =>
             /\ statement = NoStatement
             /\ sent_primary = 0 /\ sent_replica = 0
             /\ gate_outcome = OutcomeByPrivileges(api_name, current_user.privileges))
    /\ [][(cpc = "idle" /\ cpc' # "idle" /\ current_user' # NoContext
              /\ current_user'.tenant_id \in {NoneStr, Absent})
            => (cpc' = "done" /\ UNCHANGED routing_vars)]_vars

\* A super-admin context passed the gate while the only TenantUser row of
\* the user is suspended.
C30_Witness ==
    /\ UnscopedAnswered
    /\ current_user.tenant_id = NoneStr
    /\ gate_outcome = GateOk
    /\ \E r \in primary_tenant_users : r.user_id = current_user.user_id /\ r.status # "active"

\* A context without tenant_id was refused for its privileges while the
\* user has an active TenantUser row.
UnsetTenantRefused ==
    /\ UnscopedAnswered
    /\ current_user.tenant_id = Absent
    /\ gate_outcome.status = 403
    /\ \E r \in primary_tenant_users : r.user_id = current_user.user_id /\ r.status = "active"

\* The payloads get_current_user accepts, over every token.
AcceptedPayloads ==
    {DecodeToken(t, Now).payload : t \in {x \in Tokens : DecodeToken(x, Now).ok}}

\* C31: the key get_current_user reads is create_privilege_key of the
\* normalized tenant_id ("None" for a super admin) and user_id, for every
\* accepted payload and in every call that reached the cache; it is not the
\* key create_tenant_key gives for the same prefix and parts, unless the two
\* parts are the same string.
C31_CacheKeyIsPrivilegeKey ==
    /\ \A p \in AcceptedPayloads :
          /\ CacheKey(p) = CreatePrivilegeKey(p.tenant_id, p.user_id)
          /\ p.user_id # p.tenant_id =>
                CacheKey(p) # CreateTenantKey("userprivilege", p.user_id, p.tenant_id)
    /\ cache_key # "" =>
          /\ cache_key = CreatePrivilegeKey(
                  IF token.tenant_id = NoneStr THEN NoneStr ELSE UuidStr(token.tenant_id),
                  UuidStr(token.user_id))
          /\ cache_key # CreateTenantKey("userprivilege", payload.user_id,
                                          payload.tenant_id)

\* A super-admin call read the key "userprivilege:None:<user_id>".
C31_Witness ==
    /\ CacheConsulted
    /\ token.tenant_id = NoneStr
    /\ cache_key = "userprivilege:None:" \o U1

\* Some accepted payload comes from a token whose identifiers are not in
\* canonical form.
NormalizedPayloadExists ==
    \E t \in Tokens :
        /\ DecodeToken(t, Now).ok
        /\ t.user_id = U1Upper
        /\ t.tenant_id = T1Upper
        /\ CacheKey(DecodeToken(t, Now).payload) = "userprivilege:" \o T1 \o ":" \o U1

\* execute has returned the rows of a Select that primary served in the
\* except branch, after the replica raised OperationalError.
ReadFellBack ==
    /\ rpc = "idle"
    /\ last_op = "execute"
    /\ result = "ok"
    /\ IsSelect(statement)
    /\ served = "primary"
    /\ replica_operr

\* C32: use_primary_next is false in a new session; whenever it is true a
\* write has returned from primary since the session was created or last
\* committed; no step of the execute of a Select raises it, and after a
\* Select that primary served because the replica failed it is still false.
C32_FlagOnlyAfterWrite ==
    /\ [](use_primary_next => wrote_since_commit)
    /\ [](last_op = "none" => ~use_primary_next)
    /\ [](ReadFellBack => ~use_primary_next)
    /\ [][(rpc = "running" /\ ~IsWrite(statement))
            => (use_primary_next' = use_primary_next)]_vars

\* A Select fell back to primary in a session that had written and committed
\* before, and the flag is false.
C32_Witness ==
    /\ ReadFellBack
    /\ durable
    /\ ~use_primary_next

\* The flag is true after a write that primary answered.
FlagRaisedByWrite ==
    /\ use_primary_next
    /\ IsWrite(statement)
    /\ served = "primary"
    /\ rpc = "idle"

\* execute has returned the rows of a Select in a session whose flag is up.
FlaggedReadReturned ==
    /\ rpc = "idle"
    /\ last_op = "execute"
    /\ result = "ok"
    /\ IsSelect(statement)
    /\ use_primary_next

\* C33: rollback() leaves use_primary_next as it is, whether it succeeds or
\* raises; the flag goes from true to false only through a commit that
\* succeeded or with a new session; and a Select executed while the flag is
\* up, after a rollback as before it, is served by primary and is never
\* submitted to the replica.
C33_RollbackKeepsFlag ==
    /\ [][last_op' = "rollback" => use_primary_next' = use_primary_next]_vars
    /\ [][(use_primary_next /\ ~use_primary_next')
            => ((last_op' = "commit" /\ result' = "ok") \/ last_op' = "none")]_vars
    /\ [](FlaggedReadReturned => (served = "primary" /\ sent_replica = 0))

\* A write was rolled back (nothing is pending, nothing was committed) and a
\* Select executed afterwards was served by primary, the flag still up.
C33_Witness ==
    /\ FlaggedReadReturned
    /\ rollback_called = {"primary", "replica"}
    /\ ~pending
    /\ ~durable
    /\ served = "primary"

\* The table rows with the status and the tenant of every row replaced.
Restated(rows, st, tenant) ==
    {[r EXCEPT !.status = st, !.tenant_id = tenant] : r \in rows}

\* The admin query of the call was answered and the call went on to the cache.
AdminCheckPassed ==
    /\ token.tenant_id = NoneStr
    /\ gpc = "cache" \/ CacheConsulted

\* The admin query of the call was answered and the call was refused.
AdminCheckRefused ==
    /\ GcuDone
    /\ queried = <<"session", "super_admin">>
    /\ outcome = HttpError(403, "User is not a super admin")

\* C34: the super-admin check passes exactly when the store holds a
\* TenantUser row of the user with is_admin = true; replacing the status
\* and the tenant of the rows by any other leaves what the check finds, and
\* so its outcome, the same.
C34_AdminCheckIgnoresStatus ==
    /\ \A rows \in AdminTables, st \in TenantUserStatuses, tenant \in {NullTenant, T1, T2} :
          IsAdminRowFound(SuperAdminQuery(Restated(rows, st, tenant), U1))
             = IsAdminRowFound(SuperAdminQuery(rows, U1))
    /\ AdminCheckPassed =>
          \E r \in primary_tenant_users : r.user_id = payload.user_id /\ r.is_admin
    /\ AdminCheckRefused =>
          ~\E r \in primary_tenant_users : r.user_id = payload.user_id /\ r.is_admin

\* A super-admin call returned a user-context although the only admin row of
\* the user is suspended and belongs to a tenant.
C34_Witness ==
    /\ GcuReturned
    /\ token.tenant_id = NoneStr
    /\ primary_tenant_users = {TenantUserRow(U1, T1, TRUE, "suspended")}

\* A super-admin call was refused although the user has an active row, which
\* is not an admin row.
ActiveNonAdminRefused ==
    /\ AdminCheckRefused
    /\ primary_tenant_users = {TenantUserRow(U1, T1, FALSE, "active")}

\* Caches over the privilege keys, each key holding nothing or an entry.
SmallStores == [CacheKeys -> {CacheNone, OtherEntry}]

\* What get_current_user makes of the cache c for the payload p.
ResultFrom(c, p) ==
    FromCache(CacheGet(RedisGet(c, CacheKey(p)), "ok"), p, p.tenant_id = NoneStr)

\* The cache c with the entry under key replaced by v.
WithEntry(c, key, v) == [c EXCEPT ![key] = v]

\* C35: the result of get_current_user is a function of the entry stored
\* under the key of the token's own tenant_id and user_id: every cache that
\* holds the entry the call read under that key gives the result the call
\* gave, whatever it holds under the other keys, and a returned user-context
\* carries the record and the privileges of that entry, never those of the
\* entries of other users or tenants.
C35_OnlyOwnCacheEntry ==
    /\ (CacheConsulted /\ ~cache_error) =>
          \A c \in SmallStores :
              ResultFrom(WithEntry(c, cache_key, cached_data), payload) = outcome
    /\ GcuReturned =>
          /\ cache_key \in CacheKeys
          /\ outcome.users[1].user_details = cached_data.user
          /\ outcome.users[1].privileges = Flatten(CachedPrivileges)
          /\ cached_data # OtherEntry
          /\ \A i \in 1..Len(outcome.users[1].privileges) :
                outcome.users[1].privileges[i] # "other:secret"

\* A tenant user was returned with the privileges of their own entry while
\* the cache holds the entries of another user and of another tenant.
C35_Witness ==
    /\ GcuReturned
    /\ cache_key = CreatePrivilegeKey(T1, U1)
    /\ outcome.users[1].privileges # <<>>
    /\ CacheStore(cache_key, cached_data)[CreatePrivilegeKey(T1, U2)] = OtherEntry
    /\ CacheStore(cache_key, cached_data)[CreatePrivilegeKey(T2, U1)] = OtherEntry

\* C36: no data operation of CacheManager lets a RedisError reach its
\* caller. When the client raised one (in the ping of initialize, in the
\* command, or because the key holds another type) get, hget and incr
\* return None, set, delete, exists, expire, hset and flushdb return False,
\* ttl returns -1, sadd returns 0, hgetall returns {} and smembers []; a get
\* that failed returns what a get of an absent key returns.
C36_RedisErrorNeverEscapes ==
    /\ cm.raised = "none"
    /\ cm.failed =>
          /\ cm.op \in {"get", "hget", "incr"} => cm.ret = "None"
          /\ cm.op \in {"set", "delete", "exists", "expire", "hset", "flushdb"}
                => cm.ret = "False"
          /\ cm.op = "ttl" => cm.ret = "-1"
          /\ cm.op = "sadd" => cm.ret = "0"
          /\ cm.op = "hgetall" => cm.ret = "{}"
          /\ cm.op = "smembers" => cm.ret = "[]"
    /\ (cm.op = "get" /\ cm.failed) => cm.ret = GetBody(EmptyDb, cm.key).value

\* A get failed while the key holds a value that is not null, and returned
\* None as for an absent key.
C36_Witness ==
    /\ cm.op = "get"
    /\ cm.failed
    /\ redis_db[cm.key].type = "string"
    /\ DeserializeValue(redis_db[cm.key].text) # "None"
    /\ cm.ret = "None"
    /\ cm.raised = "none"

\* The wrapped call has returned or raised.
WrapDone == wrap.pc = "done"

\* When the wrapped call began the cache held, under the derived key, a
\* value that is not null.
HeldNonNull ==
    /\ wrap.held.type = "string"
    /\ DeserializeValue(wrap.held.text) # "None"

\* The function returned and the cache holds its result under the derived
\* key with the expiry of the decorator.
ResultStored ==
    redis_db[wrap.key] = StringEntry(SerializeValue(wrap.result), wrap.expire)

\* C37: a call of a function wrapped by cache or cache_with_tenant that
\* finds a value that is not null under the derived key does not invoke the
\* function and returns that value; any other call invokes the function
\* exactly once and, when the function returned, leaves its result stored
\* under the key with the given expiry.
C37_HitSkipsMissStores ==
    /\ (WrapDone /\ HeldNonNull) =>
          /\ wrap.calls = 0
          /\ wrap.ret = DeserializeValue(wrap.held.text)
    /\ (WrapDone /\ ~HeldNonNull) =>
          /\ wrap.calls = 1
          /\ wrap.raised = "none" => (ResultStored /\ wrap.ret = wrap.result)

\* The same statement for the calls during which the Redis client answered.
HitSkipsMissStoresIfRedisAnswers ==
    (WrapDone /\ ~wrap.get_failed /\ ~wrap.set_failed) => C37_HitSkipsMissStores

\* A call found a value, did not invoke the function and returned the value.
WrapHit ==
    /\ WrapDone
    /\ HeldNonNull
    /\ wrap.calls = 0
    /\ wrap.ret = "[1, 2]"

\* A call found nothing, invoked the function once and stored its result.
WrapMissStored ==
    /\ WrapDone
    /\ wrap.held = NoEntry
    /\ wrap.calls = 1
    /\ wrap.result = "(1, 2)"
    /\ ResultStored


----------------------------------------------------------------------------
\* DecryptionMiddleware: what reaches the downstream app.

MwDone == mw.pc = "done"

\* The fields of the body the middleware read, where it is a JSON object.
BodyObject == JsonLoadsText(mw.body_bytes)

BodyIsObject == BodyObject.ok /\ BodyObject.kind = "object"

FieldMissing ==
    /\ BodyIsObject
    /\ \/ FalsyText(DictGet(BodyObject.value, "encrypted"))
       \/ FalsyText(DictGet(BodyObject.value, "nonce"))

BothFields == BodyIsObject /\ ~FieldMissing

BadBase64 ==
    /\ BothFields
    /\ B64Raises(BodyObject.value.encrypted) \/ B64Raises(BodyObject.value.nonce)

BothDecoded == BothFields /\ ~BadBase64

NonceOfBody == B64Decode(BodyObject.value.nonce)

DataOfBody == B64Decode(BodyObject.value.encrypted)

NonceNotTwelve == BothDecoded /\ Len(NonceOfBody) # 12

DecryptionRaises ==
    /\ BothDecoded
    /\ ~NonceNotTwelve
    /\ AesGcmRaises(NonceOfBody, DataOfBody)

PlainOfBody == AesGcmDecrypt(NonceOfBody, DataOfBody)

PlainNotJson ==
    /\ BothDecoded
    /\ ~NonceNotTwelve
    /\ ~DecryptionRaises
    /\ Utf8Raises(PlainOfBody) \/ ~JsonLoadsText(PlainOfBody).ok

AnyFailure ==
    \/ ~BodyIsObject
    \/ FieldMissing
    \/ BadBase64
    \/ NonceNotTwelve
    \/ DecryptionRaises
    \/ PlainNotJson

\* C38: for a POST on a configured decrypt path the downstream app is invoked
\* only after the body was decrypted, and it is handed the decrypted JSON as
\* the body; a missing field, bad base64, a nonce that is not 12 bytes long, a
\* failed decryption or a plaintext that is not JSON ends in the 400 error
\* with the app not invoked; every other request reaches the app with the
\* receive channel it came with, nothing of it consumed.
C38_AppOnlyAfterDecryption ==
    /\ mw.pc = "reading" => ~mw.app_called
    /\ (MwDone /\ Intercepted(mw.scope) /\ AnyFailure) =>
          /\ ~mw.app_called
          /\ mw.status = 400
    /\ (MwDone /\ Intercepted(mw.scope) /\ ~AnyFailure) =>
          /\ mw.app_called
          /\ mw.status = 0
          /\ mw.app_receive = "new_receive"
          /\ mw.app_body = JsonDumps(JsonLoadsText(PlainOfBody).value)
    /\ (MwDone /\ ~Intercepted(mw.scope)) =>
          /\ mw.app_called
          /\ mw.status = 0
          /\ mw.app_receive = "receive"
          /\ mw.receive = mw.sent

\* A body that came in two messages was decrypted and handed to the app.
C38_Witness ==
    /\ MwDone
    /\ Intercepted(mw.scope)
    /\ Len(mw.sent) = 2
    /\ mw.app_called
    /\ mw.app_body = "{\"a\": 1}"

\* A body sealed under a nonce of 8 bytes was refused.
ShortNonceRefused ==
    /\ MwDone
    /\ NonceNotTwelve
    /\ ~AesGcmRaises(NonceOfBody, DataOfBody)
    /\ mw.status = 400
    /\ ~mw.app_called

\* A request outside the decrypt paths went through.
PassedThrough == MwDone /\ ~Intercepted(mw.scope) /\ mw.app_called


----------------------------------------------------------------------------
\* poll_queue: what a handler that raises leaves behind.

\* The message the loop is at.
CurrentMessage == poll.messages[poll.i]

\* A step deletes a message only as the step of the loop at that message,
\* with the handler having returned for it.
DeletedOnlyAfterReturn ==
    \A m \in Messages :
        (sqs_queue[m] # "deleted" /\ sqs_queue'[m] = "deleted") =>
            /\ poll.pc = "handle"
            /\ CurrentMessage = m
            /\ m \in poll'.returned
            /\ m \notin poll'.raised

\* After a handler raised the loop is at the next message of the same batch,
\* or polls again when the batch is through.
RaiseMovesOn ==
    (poll.pc = "handle" /\ poll'.raised # poll.raised) =>
        /\ poll'.running
        /\ poll'.messages = poll.messages
        /\ IF poll.i < Len(poll.messages)
           THEN poll'.pc = "handle" /\ poll'.i = poll.i + 1
           ELSE poll'.pc = "receive"

\* The messages whose handler raised in this iteration are in the queue.
RaisedStay ==
    \A m \in poll.raised : sqs_queue[m] \in {"inflight", "visible"}

\* C39: poll_queue deletes a received message only after the handler returned
\* for it; a message whose handler raised is not deleted by that iteration
\* and stays for redelivery, the rest of the batch is processed, and the loop
\* goes on polling.
C39_DeleteOnlyAfterHandler ==
    /\ [](RaisedStay /\ poll.running)
    /\ [][DeletedOnlyAfterReturn /\ RaiseMovesOn]_vars

\* In one batch a handler raised for one message and returned for another,
\* which was deleted.
C39_Witness ==
    /\ poll.raised # {}
    /\ \E m \in poll.returned : sqs_queue[m] = "deleted"
    /\ \A m \in poll.raised : sqs_queue[m] # "deleted"

====
